---- MODULE Spec2Model ----
(***************************************************************************)
(* Memory graph and retrieval engine of MAJ (Memory Assisted Judge).       *)
(*                                                                         *)
(* The graph store is a list of nodes (in creation order) and a bag of     *)
(* typed edges between node positions.  Scores are the cosine scores the   *)
(* vector index yields, in per cent.  Every GraphManager method is one     *)
(* action; get_or_create_* is also given as the two round trips it makes   *)
(* (similarity query, then create) for concurrent callers.                 *)
(***************************************************************************)
EXTENDS Integers, Sequences, FiniteSets, Bags, TLC

VARIABLES
    nodes,              \* the stored nodes, in creation order
    edges,              \* bag of [type, src, dst]; src and dst are node positions
    policy_threshold,   \* GraphManager.policy_threshold
    last,               \* the last call made on the GraphManager and what it returned
    prev,               \* the call before it, where a scenario records two calls
    callers             \* concurrent get_or_create_* callers: pc and locals

vars == <<nodes, edges, policy_threshold, last, prev, callers>>

----------------------------------------------------------------------------
(* Values *)

\* Python None, for an absent embedding, threshold or id.
None == 0 - 1

\* The five node labels.
Kinds == {"Policy", "Attempt", "Issue", "Fix", "Semantic"}

\* Embeddings: four fixed unit vectors of the plane, at 0, 25.84, 45.57 and
\* 31.79 degrees.
Emb == {0, 1, 2, 3}

\* Attempt.is_successful as stored: a boolean, or unset.
Outcomes == {"True", "False", "None"}

DEFAULT_POLICY_THRESHOLD == 90
DEFAULT_SEMANTIC_THRESHOLD == 85
PATTERN_FLOOR == 85
CONTRASTIVE_OVERFETCH == 4
PATTERN_OVERFETCH == 3

\* Bounds of the model.
MaxNodes == 2
MaxEdges == 2
MaxK == 2

\* The ids callers pass: entity ids (models' uuid4 defaults, or the id of an
\* entity object used again) and ids no entity carries.
Ids == {1, 2}

Min(a, b) == IF a <= b THEN a ELSE b

\* An entity object as the models build it (Policy, Attempt, Issue, Fix,
\* Semantic): its id, its embedding (None when with_embedding was not called)
\* and, for an Attempt, its outcome.
Entity(kind, id, emb, succ) ==
    [kind |-> kind, id |-> id, emb |-> emb, succ |-> succ]

\* to_neo4j_props + CREATE: the node that a create call stores for an entity.
NodeOf(entity) == entity

----------------------------------------------------------------------------
(* The vector index *)

\* Cosine score of two embeddings, in per cent (rounded).
Score(a, b) ==
    LET lo == Min(a, b)
        hi == IF a <= b THEN b ELSE a
    IN  IF lo = hi THEN 100
        ELSE IF lo = 0 /\ hi = 1 THEN 90
        ELSE IF lo = 0 /\ hi = 2 THEN 70
        ELSE IF lo = 0 /\ hi = 3 THEN 85
        ELSE IF lo = 1 /\ hi = 2 THEN 94
        ELSE IF lo = 1 /\ hi = 3 THEN 99
        ELSE 97

\* The positions of the nodes the index of a label holds: a node stored
\* without an embedding is not indexed.
Indexed(ns, kind) ==
    {p \in DOMAIN ns : ns[p].kind = kind /\ ns[p].emb # None}

\* Index order: descending score; equal scores in creation order.
Nearer(ns, q, a, b) ==
    \/ Score(q, ns[a].emb) > Score(q, ns[b].emb)
    \/ Score(q, ns[a].emb) = Score(q, ns[b].emb) /\ a < b

RECURSIVE Ranked(_, _, _)
Ranked(ns, S, q) ==
    IF S = {} THEN <<>>
    ELSE LET b == CHOOSE p \in S : \A r \in S \ {p} : Nearer(ns, q, p, r)
         IN  <<b>> \o Ranked(ns, S \ {b}, q)

\* CALL db.index.vector.queryNodes(index, k, q) YIELD node, score
QueryNodes(ns, kind, k, q) ==
    LET r == Ranked(ns, Indexed(ns, kind), q)
    IN  [i \in 1..Min(k, Len(r)) |->
            [node |-> r[i], score |-> Score(q, ns[r[i]].emb)]]

----------------------------------------------------------------------------
(* Similarity search *)

find_similar_policies(ns, embedding, top_k) ==
    LET res == QueryNodes(ns, "Policy", top_k, embedding)
    IN  [i \in DOMAIN res |-> [id |-> ns[res[i].node].id, score |-> res[i].score]]

find_similar_semantics(ns, embedding, top_k) ==
    LET res == QueryNodes(ns, "Semantic", top_k, embedding)
    IN  [i \in DOMAIN res |-> [id |-> ns[res[i].node].id, score |-> res[i].score]]

----------------------------------------------------------------------------
(* Dedup / upsert *)

\* Python's `a or b` on a threshold: None and 0 are both falsy.
OrElse(a, b) == IF a = None \/ a = 0 THEN b ELSE a

\* GraphManager.__init__: policy_threshold or float(getenv(..., DEFAULT))
InitThreshold(ctor, env) ==
    OrElse(ctor, IF env = None THEN DEFAULT_POLICY_THRESHOLD ELSE env)

\* Hit with the comparison made strict.
HitStrict(similar, threshold) ==
    similar # <<>> /\ similar[1].score > threshold

\* Hit with the score left unchecked: any nearest neighbour counts.
HitAny(similar, threshold) == similar # <<>>

\* `similar and similar[0]['score'] >= threshold`
Hit(similar, threshold) ==
    similar # <<>> /\ similar[1].score >= threshold

\* What a get_or_create call returns: (id, is_new).
Ret(id, created) == [id |-> id, created |-> created, raised |-> FALSE]

\* The call raised the store's error instead of returning.
Raised == [id |-> None, created |-> FALSE, raised |-> TRUE]

\* The record of a call: the method, its arguments, what it returned.
Call(op, arg, ret) == [op |-> op, arg |-> arg, ret |-> ret]

Idle == [c \in {1, 2} |-> [pc |-> "idle"]]

\* CreateNode behind a uniqueness guard of the store: the node is not created
\* when the index of its label holds a node within the default threshold.
CreateNodeUnlessSimilar(ns, entity) ==
    IF /\ entity.emb # None
       /\ \E p \in Indexed(ns, entity.kind) :
            Score(entity.emb, ns[p].emb) >=
                (IF entity.kind = "Policy" THEN DEFAULT_POLICY_THRESHOLD
                                           ELSE DEFAULT_SEMANTIC_THRESHOLD)
    THEN ns
    ELSE Append(ns, NodeOf(entity))

\* CreateNode as a MERGE on the embedding: no node is added when a node of
\* the label with the same embedding is stored.
CreateNodeMerged(ns, entity) ==
    IF \E p \in DOMAIN ns : ns[p].kind = entity.kind /\ ns[p].emb = entity.emb
    THEN ns
    ELSE Append(ns, NodeOf(entity))

\* session.run("CREATE (n:Label {...})", **entity.to_neo4j_props()): a new
\* node, whatever the store holds.
CreateNode(ns, entity) == Append(ns, NodeOf(entity))

\* get_or_create_policy as an upsert that refreshes: on a hit the stored
\* node takes the candidate's embedding.
get_or_create_policy_refreshing(ns, inst_threshold, policy, threshold) ==
    LET thr == OrElse(threshold, inst_threshold)
    IN  IF policy.emb = None
        THEN [nodes |-> ns, ret |-> Raised]
        ELSE LET res == QueryNodes(ns, "Policy", 1, policy.emb)
             IN  IF res # <<>> /\ res[1].score >= thr
                 THEN [nodes |-> [ns EXCEPT ![res[1].node].emb = policy.emb],
                       ret |-> Ret(ns[res[1].node].id, FALSE)]
                 ELSE [nodes |-> CreateNode(ns, policy),
                       ret |-> Ret(policy.id, TRUE)]

\* get_or_create_policy(policy, threshold) on the stored nodes ns: the nodes
\* afterwards and the returned (id, is_new).  The similarity query is issued
\* whether or not the policy carries an embedding; the index rejects a null
\* query vector, and the error propagates to the caller.
get_or_create_policy(ns, inst_threshold, policy, threshold) ==
    LET thr == OrElse(threshold, inst_threshold)
    IN  IF policy.emb = None
        THEN [nodes |-> ns, ret |-> Raised]
        ELSE LET similar == find_similar_policies(ns, policy.emb, 1)
             IN  IF Hit(similar, thr)
                 THEN [nodes |-> ns, ret |-> Ret(similar[1].id, FALSE)]
                 ELSE [nodes |-> CreateNode(ns, policy),
                       ret |-> Ret(policy.id, TRUE)]

\* get_or_create_semantic(semantic, threshold): the similarity check is
\* skipped when the semantic carries no embedding.
get_or_create_semantic(ns, semantic, threshold) ==
    LET similar == IF semantic.emb # None
                   THEN find_similar_semantics(ns, semantic.emb, 1)
                   ELSE <<>>
    IN  IF semantic.emb # None /\ Hit(similar, threshold)
        THEN [nodes |-> ns, ret |-> Ret(similar[1].id, FALSE)]
        ELSE [nodes |-> CreateNode(ns, semantic),
              ret |-> Ret(semantic.id, TRUE)]

----------------------------------------------------------------------------
(* Relationships *)

\* Match without the label: MATCH (n {id: $id}) binds a node of any label.
MatchAnyLabel(ns, kind, id) == {p \in DOMAIN ns : ns[p].id = id}

\* MATCH (n:Label {id: $id}): the positions of the nodes it binds.
Match(ns, kind, id) == {p \in DOMAIN ns : ns[p].kind = kind /\ ns[p].id = id}

\* The endpoint labels of each relationship type, as the link_* queries
\* write them.
SrcKind(type) ==
    CASE type = "SATISFIES" -> "Attempt"
      [] type = "CAUSES" -> "Attempt"
      [] type = "RESOLVES" -> "Fix"
      [] type = "ABSTRACTS_TO" -> "Issue"

DstKind(type) ==
    CASE type = "SATISFIES" -> "Policy"
      [] type = "CAUSES" -> "Issue"
      [] type = "RESOLVES" -> "Issue"
      [] type = "ABSTRACTS_TO" -> "Semantic"

\* LinkRows as an OPTIONAL MATCH would have it: an endpoint that binds no node
\* still yields a row, and the edge is created with that end on no node (0).
LinkRowsOptionalMatch(ns, type, from_id, to_id) ==
    LET srcs == Match(ns, SrcKind(type), from_id)
        dsts == Match(ns, DstKind(type), to_id)
    IN  {[type |-> type, src |-> a, dst |-> b] :
            a \in (IF srcs = {} THEN {0} ELSE srcs),
            b \in (IF dsts = {} THEN {0} ELSE dsts)}

\* MATCH (a) MATCH (b) CREATE (a)-[:TYPE]->(b): one new edge per pair of
\* bound nodes, none when either MATCH binds nothing.
LinkRows(ns, type, from_id, to_id) ==
    {[type |-> type, src |-> a, dst |-> b] :
        a \in Match(ns, SrcKind(type), from_id),
        b \in Match(ns, DstKind(type), to_id)}

\* The edges after a link_* call.
Linked(ns, es, type, from_id, to_id) ==
    es (+) SetToBag(LinkRows(ns, type, from_id, to_id))

\* What a link_* call hands back to its caller: session.run raises nothing
\* when a MATCH binds no node and the method has no return statement.
LinkOutcome(ns, type, from_id, to_id) == "None"

----------------------------------------------------------------------------
(* Inputs of the store machine *)

EmbMain == {0, 2}

Entities(kind) ==
    IF kind \in {"Policy", "Semantic"}
    THEN {Entity(kind, id, e, "None") : id \in Ids, e \in EmbMain \cup {None}}
    ELSE IF kind = "Attempt"
    THEN {Entity(kind, id, 0, s) : id \in Ids, s \in {"True"}}
    ELSE {Entity(kind, id, 0, "None") : id \in Ids}

----------------------------------------------------------------------------
(* The GraphManager methods, one action each *)

Create(op, entity) ==
    /\ Len(nodes) < MaxNodes
    /\ nodes' = CreateNode(nodes, entity)
    /\ last' = Call(op, entity, entity.id)
    /\ UNCHANGED <<edges, policy_threshold, prev, callers>>

create_policy == \E e \in Entities("Policy") : Create("create_policy", e)

create_attempt == \E e \in Entities("Attempt") : Create("create_attempt", e)

create_issue == \E e \in Entities("Issue") : Create("create_issue", e)

create_fix == \E e \in Entities("Fix") : Create("create_fix", e)

create_semantic == \E e \in Entities("Semantic") : Create("create_semantic", e)

GetOrCreatePolicy ==
    \E policy \in Entities("Policy"), threshold \in {None} :
        LET r == get_or_create_policy(nodes, policy_threshold, policy, threshold)
        IN  /\ Len(r.nodes) <= MaxNodes
            /\ nodes' = r.nodes
            /\ last' = Call("get_or_create_policy",
                            [entity |-> policy, threshold |-> threshold], r.ret)
            /\ UNCHANGED <<edges, policy_threshold, prev, callers>>

GetOrCreateSemantic ==
    \E semantic \in Entities("Semantic") :
        LET r == get_or_create_semantic(nodes, semantic, DEFAULT_SEMANTIC_THRESHOLD)
        IN  /\ Len(r.nodes) <= MaxNodes
            /\ nodes' = r.nodes
            /\ last' = Call("get_or_create_semantic",
                            [entity |-> semantic,
                             threshold |-> DEFAULT_SEMANTIC_THRESHOLD], r.ret)
            /\ UNCHANGED <<edges, policy_threshold, prev, callers>>

Link(op, type) ==
    \E from_id \in Ids, to_id \in Ids :
        /\ BagCardinality(Linked(nodes, edges, type, from_id, to_id)) <= MaxEdges
        /\ edges' = Linked(nodes, edges, type, from_id, to_id)
        /\ last' = Call(op, [type |-> type, from_id |-> from_id, to_id |-> to_id],
                        LinkOutcome(nodes, type, from_id, to_id))
        /\ UNCHANGED <<nodes, policy_threshold, prev, callers>>

link_attempt_satisfies_policy == Link("link_attempt_satisfies_policy", "SATISFIES")

link_attempt_causes_issue == Link("link_attempt_causes_issue", "CAUSES")

link_fix_resolves_issue == Link("link_fix_resolves_issue", "RESOLVES")

link_issue_abstracts_to_semantic ==
    Link("link_issue_abstracts_to_semantic", "ABSTRACTS_TO")

\* DELETE without DETACH: the store refuses to delete a node that still has
\* relationships, and nothing is deleted.
ClearedUnlessLinked ==
    IF edges = EmptyBag THEN [nodes |-> <<>>, edges |-> EmptyBag]
    ELSE [nodes |-> nodes, edges |-> edges]

\* MATCH (n) DETACH DELETE n
Cleared == [nodes |-> <<>>, edges |-> EmptyBag]

clear_all ==
    /\ nodes' = Cleared.nodes
    /\ edges' = Cleared.edges
    /\ last' = Call("clear_all", None, None)
    /\ UNCHANGED <<policy_threshold, prev, callers>>

----------------------------------------------------------------------------
(* The store machine: one GraphManager, one caller at a time *)

NoCall == Call("init", None, None)

Init ==
    /\ nodes = <<>>
    /\ edges = EmptyBag
    /\ policy_threshold = InitThreshold(None, None)
    /\ last = NoCall
    /\ prev = NoCall
    /\ callers = Idle

Next ==
    \/ create_policy
    \/ create_attempt
    \/ create_issue
    \/ create_fix
    \/ create_semantic
    \/ GetOrCreatePolicy
    \/ GetOrCreateSemantic
    \/ link_attempt_satisfies_policy
    \/ link_attempt_causes_issue
    \/ link_fix_resolves_issue
    \/ link_issue_abstracts_to_semantic
    \/ clear_all

Spec == Init /\ [][Next]_vars

----------------------------------------------------------------------------
(* Relationship store: claims C4, C5 *)

LinkOps == {"link_attempt_satisfies_policy", "link_attempt_causes_issue",
            "link_fix_resolves_issue", "link_issue_abstracts_to_semantic"}

\* The last call was a link_* call and one of the ids it named is the id of
\* no stored node of the label the query matches on.  (A link_* call leaves
\* the nodes as they were, so this is also what the call saw.)
LinkNamedMissingEndpoint ==
    /\ last.op \in LinkOps
    /\ \/ Match(nodes, SrcKind(last.arg.type), last.arg.from_id) = {}
       \/ Match(nodes, DstKind(last.arg.type), last.arg.to_id) = {}

\* Every stored edge starts and ends on a stored node.
NoDanglingEdge ==
    \A e \in BagToSet(edges) : e.src \in DOMAIN nodes /\ e.dst \in DOMAIN nodes

\* A link_* call that named a missing endpoint left the edges as they were.
MissingEndpointAddsNoEdge == LinkNamedMissingEndpoint' => edges' = edges

\* C4: in every reachable store state, under any sequence of create_*, link_*
\* and clear_all calls (link calls naming ids that were never created
\* included), every stored edge has both its source node and its target node
\* in the store, and a link call naming a nonexistent endpoint adds no edge.
C4_EdgesHaveEndpoints == []NoDanglingEdge /\ [][MissingEndpointAddsNoEdge]_vars

\* C4 witness: edges are stored and the last call was a link naming a missing
\* endpoint.
C4_Witness == LinkNamedMissingEndpoint /\ edges # EmptyBag

\* C5 (as claimed): a link_* call that names an endpoint id not in the store
\* reports a NotFound outcome to its caller, which a caller can tell from the
\* outcome of a link call that created an edge.
C5_MissingEndpointReported == LinkNamedMissingEndpoint => last.ret = "NotFound"

----------------------------------------------------------------------------
(* Dedup scenario: two get_or_create_policy calls in a row on a store that *)
(* already holds some nodes: claims C1, C2                                 *)

MaxPrior == 2

\* The prior store: up to MaxPrior Policy or Semantic nodes with embeddings,
\* with ids of their own (3, 4, ...); the two candidates carry ids 1 and 2.
PriorStores ==
    UNION {[1..n -> {"Policy", "Semantic"} \X Emb] : n \in 0..MaxPrior}

PriorNodes(f) ==
    [i \in DOMAIN f |-> NodeOf(Entity(f[i][1], 2 + i, f[i][2], "None"))]

InitDedup ==
    /\ \E f \in PriorStores : nodes = PriorNodes(f)
    /\ edges = EmptyBag
    /\ policy_threshold = InitThreshold(None, None)
    /\ last = NoCall
    /\ prev = NoCall
    /\ callers = Idle

\* The next of the two calls: candidate 1 first, then candidate 2, each with
\* an embedding and with a per-call threshold or none.
DedupCall ==
    /\ prev = NoCall
    /\ \E e \in Emb, threshold \in {None, DEFAULT_SEMANTIC_THRESHOLD} :
        LET policy == Entity("Policy", IF last = NoCall THEN 1 ELSE 2, e, "None")
            r == get_or_create_policy(nodes, policy_threshold, policy, threshold)
        IN  /\ nodes' = r.nodes
            /\ prev' = last
            /\ last' = Call("get_or_create_policy",
                            [entity |-> policy, threshold |-> threshold], r.ret)
    /\ UNCHANGED <<edges, policy_threshold, callers>>

NextDedup == DedupCall

SpecDedup == InitDedup /\ [][NextDedup]_vars

\* Both calls have returned, and were made with the same threshold argument;
\* P1 and P2 are the two candidates, Thr the threshold both calls compared
\* against.
BothCalled ==
    /\ prev.op = "get_or_create_policy"
    /\ last.op = "get_or_create_policy"
    /\ prev.arg.threshold = last.arg.threshold

P1 == prev.arg.entity

P2 == last.arg.entity

Thr == OrElse(last.arg.threshold, policy_threshold)

\* The Policy nodes stored before the first call.
PriorPolicies == {p \in DOMAIN nodes : nodes[p].kind = "Policy" /\ nodes[p].id > 2}

SecondReturnsFirst ==
    /\ last.ret.created = FALSE
    /\ last.ret.id = prev.ret.id

\* C1 (as claimed): for all candidates P1, P2 of similarity >= the threshold
\* and ANY prior store contents, get_or_create_policy(P2) right after
\* get_or_create_policy(P1) returns created=false and the id the P1 call
\* returned.
C1_AnyPriorStore ==
    (BothCalled /\ Score(P1.emb, P2.emb) >= Thr) => SecondReturnsFirst

\* C1 (amended): the same, for prior store contents that hold no Policy of
\* similarity >= the threshold to P1 or to P2 (an empty store among them);
\* the id returned twice is then P1's own.
C1_NoSimilarPrior ==
    (/\ BothCalled
     /\ Score(P1.emb, P2.emb) >= Thr
     /\ \A p \in PriorPolicies :
            /\ Score(P1.emb, nodes[p].emb) < Thr
            /\ Score(P2.emb, nodes[p].emb) < Thr)
    => (SecondReturnsFirst /\ prev.ret = Ret(P1.id, TRUE))

\* C1 witness: a prior Policy is stored, neither candidate is within the
\* threshold of it, the candidates differ in embedding, and the second call
\* returned the first candidate's id.
C1_Witness ==
    /\ BothCalled
    /\ P1.emb # P2.emb
    /\ Score(P1.emb, P2.emb) >= Thr
    /\ PriorPolicies # {}
    /\ \A p \in PriorPolicies :
            /\ Score(P1.emb, nodes[p].emb) < Thr
            /\ Score(P2.emb, nodes[p].emb) < Thr
    /\ last.ret = Ret(P1.id, FALSE)

\* C2: for two candidates of similarity < the threshold, from an empty Policy
\* store, the two calls each return created=true and the candidate's own id,
\* the ids differ, and exactly two Policy nodes are stored.
C2_DissimilarBothCreated ==
    (BothCalled /\ PriorPolicies = {} /\ Score(P1.emb, P2.emb) < Thr)
    => /\ prev.ret = Ret(P1.id, TRUE)
       /\ last.ret = Ret(P2.id, TRUE)
       /\ P1.id # P2.id
       /\ Cardinality({p \in DOMAIN nodes : nodes[p].kind = "Policy"}) = 2

\* C2 witness: two dissimilar candidates were stored from an empty Policy
\* store (next to a Semantic node with the first candidate's embedding).
C2_Witness ==
    /\ BothCalled
    /\ PriorPolicies = {}
    /\ Score(P1.emb, P2.emb) < Thr
    /\ \E p \in DOMAIN nodes : nodes[p].kind = "Semantic" /\ nodes[p].emb = P1.emb
    /\ Cardinality({p \in DOMAIN nodes : nodes[p].kind = "Policy"}) = 2

----------------------------------------------------------------------------
(* Two concurrent get_or_create callers: claim C3                          *)
(*                                                                         *)
(* Each call is two round trips to the store, the similarity query and the *)
(* CREATE, with nothing held in between.                                   *)

Callers == {1, 2}

InitRace ==
    /\ \E f \in {g \in PriorStores : Len(g) <= 1} : nodes = PriorNodes(f)
    /\ edges = EmptyBag
    /\ policy_threshold = InitThreshold(None, None)
    /\ last = NoCall
    /\ prev = NoCall
    /\ callers = Idle

\* Caller c enters get_or_create_policy or get_or_create_semantic with its
\* own candidate (id c) and the default threshold.  A Semantic without an
\* embedding goes straight to the create.
RaceBegin(c) ==
    /\ callers[c].pc = "idle"
    /\ \E kind \in {"Policy", "Semantic"}, e \in Emb \cup {None} :
        callers' = [callers EXCEPT ![c] =
            [pc |-> IF kind = "Semantic" /\ e = None THEN "create" ELSE "query",
             cand |-> Entity(kind, c, e, "None"),
             thr |-> IF kind = "Policy" THEN OrElse(None, policy_threshold)
                                        ELSE DEFAULT_SEMANTIC_THRESHOLD,
             seen |-> None,
             ret |-> None]]
    /\ UNCHANGED <<nodes, edges, policy_threshold, last, prev>>

\* First round trip: find_similar_*(embedding, top_k=1) and the test on its
\* result.  seen is the number of nodes stored when the query ran.
RaceQuery(c) ==
    /\ callers[c].pc = "query"
    /\ LET me == callers[c]
           similar == IF me.cand.kind = "Policy"
                      THEN find_similar_policies(nodes, me.cand.emb, 1)
                      ELSE find_similar_semantics(nodes, me.cand.emb, 1)
       IN  callers' = [callers EXCEPT ![c] =
               IF me.cand.emb = None
               THEN [me EXCEPT !.pc = "done", !.ret = Raised]
               ELSE IF Hit(similar, me.thr)
               THEN [me EXCEPT !.pc = "done", !.seen = Len(nodes),
                               !.ret = Ret(similar[1].id, FALSE)]
               ELSE [me EXCEPT !.pc = "create", !.seen = Len(nodes)]]
    /\ UNCHANGED <<nodes, edges, policy_threshold, last, prev>>

\* Second round trip: the CREATE, and the return of (candidate id, True).
RaceCreate(c) ==
    /\ callers[c].pc = "create"
    /\ nodes' = CreateNode(nodes, callers[c].cand)
    /\ callers' = [callers EXCEPT ![c] =
            [@ EXCEPT !.pc = "done", !.ret = Ret(callers[c].cand.id, TRUE)]]
    /\ UNCHANGED <<edges, policy_threshold, last, prev>>

NextRace == \E c \in Callers : RaceBegin(c) \/ RaceQuery(c) \/ RaceCreate(c)

SpecRace == InitRace /\ [][NextRace]_vars

\* Both calls have returned, their candidates are of one kind and of mutual
\* similarity >= the threshold, and both similarity queries ran, and missed,
\* before either create ran: the two queries saw the same number of nodes.
BothQueriedBeforeEitherCreate ==
    /\ \A c \in Callers : callers[c].pc = "done" /\ callers[c].seen # None
    /\ callers[1].cand.kind = callers[2].cand.kind
    /\ Score(callers[1].cand.emb, callers[2].cand.emb) >= callers[1].thr
    /\ callers[1].seen = callers[2].seen
    /\ \A c \in Callers :
        LET similar == QueryNodes(SubSeq(nodes, 1, callers[c].seen),
                                  callers[c].cand.kind, 1, callers[c].cand.emb)
        IN  ~Hit(similar, callers[c].thr)

\* The store holds the two candidates as two nodes of their kind, of
\* similarity >= the threshold.
DuplicateStored ==
    \E p, q \in DOMAIN nodes :
        /\ p # q
        /\ nodes[p] = NodeOf(callers[1].cand)
        /\ nodes[q] = NodeOf(callers[2].cand)
        /\ Score(nodes[p].emb, nodes[q].emb) >= callers[1].thr

\* C3: get_or_create_policy and get_or_create_semantic check, then act, with
\* no atomic guard: when two callers with candidates of mutual similarity >=
\* the threshold both run their similarity query before either runs its
\* create, both calls return created=true and the store ends with two nodes
\* of that kind of similarity >= the threshold.
C3_RaceDuplicates ==
    BothQueriedBeforeEitherCreate
    => /\ \A c \in Callers : callers[c].ret = Ret(callers[c].cand.id, TRUE)
       /\ DuplicateStored

\* C3 witness: the duplicate state, for two Semantic candidates with
\* different embeddings on a store that held a Semantic node before.
C3_Witness ==
    /\ BothQueriedBeforeEitherCreate
    /\ DuplicateStored
    /\ callers[1].cand.kind = "Semantic"
    /\ callers[1].cand.emb # callers[2].cand.emb
    /\ callers[1].seen = 1

----------------------------------------------------------------------------
(* Contrastive retrieval: claims C6, C7, C8 *)

\* Python truthiness of a stored is_successful: None, like False, is falsy.
Truthy(v) == v = "True"

\* s[:n]
Take(s, n) == SubSeq(s, 1, Min(n, Len(s)))

\* The rows of the Attempt query: id, is_successful and score of each node
\* (agent_output and reasoning ride along and decide nothing).
AttemptRows(ns, embedding, limit) ==
    LET res == QueryNodes(ns, "Attempt", limit, embedding)
    IN  [i \in DOMAIN res |->
            [id |-> ns[res[i].node].id,
             is_successful |-> ns[res[i].node].succ,
             score |-> res[i].score]]

RowTruthy(a) == Truthy(a.is_successful)

RowFalsy(a) == ~Truthy(a.is_successful)

find_contrastive_attempts(ns, embedding, top_k) ==
    LET attempts == AttemptRows(ns, embedding, top_k * CONTRASTIVE_OVERFETCH)
    IN  [positive |-> Take(SelectSeq(attempts, RowTruthy), top_k),
         negative |-> Take(SelectSeq(attempts, RowFalsy), top_k)]

MaxAttempts == 5

\* create_attempt of a new Attempt object (an id of its own), with an
\* embedding and an outcome that is True, False or was never set.
ContrastiveCreate ==
    /\ Len(nodes) < MaxAttempts
    /\ \E e \in {0, 2}, succ \in Outcomes :
        LET attempt == Entity("Attempt", Len(nodes) + 1, e, succ)
        IN  /\ nodes' = CreateNode(nodes, attempt)
            /\ last' = Call("create_attempt", attempt, attempt.id)
    /\ UNCHANGED <<edges, policy_threshold, prev, callers>>

FindContrastive ==
    /\ \E q \in {0, 1}, k \in 1..MaxK :
        last' = Call("find_contrastive_attempts",
                     [embedding |-> q, top_k |-> k],
                     find_contrastive_attempts(nodes, q, k))
    /\ UNCHANGED <<nodes, edges, policy_threshold, prev, callers>>

NextContrastive == ContrastiveCreate \/ FindContrastive

SpecContrastive == Init /\ [][NextContrastive]_vars

\* The last call was find_contrastive_attempts(Q, K); Positive and Negative
\* are what it returned.
Contrasted == last.op = "find_contrastive_attempts"

Q == last.arg.embedding

K == last.arg.top_k

Positive == last.ret.positive

Negative == last.ret.negative

Range(s) == {s[i] : i \in DOMAIN s}

\* The 4k nearest Attempts, in index order, read off the store.
Nearest4K ==
    LET r == Ranked(nodes, Indexed(nodes, "Attempt"), Q)
    IN  [i \in 1..Min(4 * K, Len(r)) |-> nodes[r[i]]]

WithOutcome(s, v) == SelectSeq(s, LAMBDA n : n.succ = v)

Ids_(s) == [i \in DOMAIN s |-> s[i].id]

\* C6 (as claimed): find_contrastive_attempts returns at most k items in
\* 'positive' and at most k in 'negative', every 'positive' item has
\* is_successful = true and every 'negative' item has is_successful = false
\* (stored Attempts whose is_successful was never set included), and no
\* Attempt is in both partitions.
C6_PartitionsMatchFlag ==
    Contrasted =>
        /\ Len(Positive) <= K
        /\ Len(Negative) <= K
        /\ \A a \in Range(Positive) : a.is_successful = "True"
        /\ \A a \in Range(Negative) : a.is_successful = "False"
        /\ Range(Ids_(Positive)) \cap Range(Ids_(Negative)) = {}

\* C7 (as claimed): the 4k nearest Attempts are taken in index order, and each
\* returned partition is the first k of the subsequence of those candidates
\* with that outcome, in that order; no Attempt outside the 4k nearest is
\* returned.
C7_PrefixOfOutcomeSubsequence ==
    Contrasted =>
        /\ Ids_(Positive) = Take(Ids_(WithOutcome(Nearest4K, "True")), K)
        /\ Ids_(Negative) = Take(Ids_(WithOutcome(Nearest4K, "False")), K)
        /\ Range(Ids_(Positive)) \cup Range(Ids_(Negative))
              \subseteq Range(Ids_(Nearest4K))

\* C8 (as claimed): the size of each partition is min(k, number of candidates
\* of that outcome among the 4k nearest) (both empty on an empty Attempt
\* store), and every returned item carries its similarity score.
C8_PartitionSizes ==
    Contrasted =>
        /\ Len(Positive) = Min(K, Len(WithOutcome(Nearest4K, "True")))
        /\ Len(Negative) = Min(K, Len(WithOutcome(Nearest4K, "False")))
        /\ \A a \in Range(Positive) \cup Range(Negative) :
            \E p \in DOMAIN nodes :
                nodes[p].id = a.id /\ a.score = Score(Q, nodes[p].emb)

\* Every stored Attempt has its outcome set.
OutcomesSet == \A p \in DOMAIN nodes : nodes[p].kind = "Attempt" => nodes[p].succ # "None"

\* C6, C7 and C8 on the stores where every Attempt has its outcome set: the
\* three hold there, so an Attempt with no outcome is their only failure.
ContrastiveOnSetOutcomes ==
    OutcomesSet =>
        /\ C6_PartitionsMatchFlag
        /\ C7_PrefixOfOutcomeSubsequence
        /\ C8_PartitionSizes

----------------------------------------------------------------------------
(* Semantic pattern aggregation, Mode A: claims C9, C10 *)

RECURSIVE SumSeq(_)
SumSeq(s) == IF s = <<>> THEN 0 ELSE Head(s) + SumSeq(Tail(s))

\* The floor left out: every candidate the index yields goes on to the
\* traversal.
SurvivesAny(row) == TRUE

\* WHERE score >= 0.85
Survives(row) == row.score >= PATTERN_FLOOR

\* MATCH (issue)-[:ABSTRACTS_TO]->(s:Semantic): the number of rows the match
\* yields for one candidate row and one Semantic node, one per stored edge.
AbstractsRows(es, row, s) ==
    CopiesIn([type |-> "ABSTRACTS_TO", src |-> row.node, dst |-> s], es)

\* WITH s, count(issue) as frequency, avg(score) as avg_similarity: the group
\* of Semantic node s over the surviving rows.  The average is kept as the
\* fraction num / den.
PatternGroup(ns, es, rows, s) ==
    LET n == [i \in DOMAIN rows |-> AbstractsRows(es, rows[i], s)]
        w == [i \in DOMAIN rows |-> rows[i].score * n[i]]
    IN  [node |-> s,
         id |-> ns[s].id,
         frequency |-> SumSeq(n),
         avg_similarity |-> [num |-> SumSeq(w), den |-> SumSeq(n)]]

\* PatternBefore with the frequency taken ascending.
PatternBeforeAscending(a, b) ==
    \/ a.frequency < b.frequency
    \/ /\ a.frequency = b.frequency
       /\ a.node < b.node

\* ORDER BY frequency DESC, avg_similarity DESC; groups equal in both come in
\* the order of their Semantic nodes.
PatternBefore(a, b) ==
    \/ a.frequency > b.frequency
    \/ /\ a.frequency = b.frequency
       /\ a.avg_similarity.num * b.avg_similarity.den
            > b.avg_similarity.num * a.avg_similarity.den
    \/ /\ a.frequency = b.frequency
       /\ a.avg_similarity.num * b.avg_similarity.den
            = b.avg_similarity.num * a.avg_similarity.den
       /\ a.node < b.node

RECURSIVE PatternOrder(_)
PatternOrder(G) ==
    IF G = {} THEN <<>>
    ELSE LET g == CHOOSE a \in G : \A b \in G \ {a} : PatternBefore(a, b)
         IN  <<g>> \o PatternOrder(G \ {g})

find_semantic_patterns(ns, es, embedding, top_k) ==
    LET cands == QueryNodes(ns, "Issue", top_k * PATTERN_OVERFETCH, embedding)
        rows == SelectSeq(cands, Survives)
        groups == {PatternGroup(ns, es, rows, s) :
                      s \in {p \in DOMAIN ns : ns[p].kind = "Semantic"}}
        ordered == PatternOrder({g \in groups : g.frequency > 0})
    IN  [i \in 1..Min(top_k, Len(ordered)) |->
            [id |-> ordered[i].id,
             frequency |-> ordered[i].frequency,
             avg_similarity |-> ordered[i].avg_similarity]]

MaxIssues == 3
MaxLinks == 3

\* The store the scenario starts from: up to two Semantic nodes (ids 11, 12).
InitPatterns ==
    /\ \E n \in 0..2 :
        nodes = [i \in 1..n |-> NodeOf(Entity("Semantic", 10 + i, None, "None"))]
    /\ edges = EmptyBag
    /\ policy_threshold = InitThreshold(None, None)
    /\ last = NoCall
    /\ prev = NoCall
    /\ callers = Idle

StoredIssues == {p \in DOMAIN nodes : nodes[p].kind = "Issue"}

\* create_issue of a new Issue object (an id of its own).
PatternCreateIssue ==
    /\ Cardinality(StoredIssues) < MaxIssues
    /\ \E e \in {1, 2, 3} :
        LET issue == Entity("Issue", Cardinality(StoredIssues) + 1, e, "None")
        IN  /\ nodes' = CreateNode(nodes, issue)
            /\ last' = Call("create_issue", issue, issue.id)
    /\ UNCHANGED <<edges, policy_threshold, prev, callers>>

\* link_issue_abstracts_to_semantic for a stored Issue and a stored Semantic,
\* also for a pair that is linked already.
PatternLink ==
    /\ BagCardinality(edges) < MaxLinks
    /\ \E i \in StoredIssues, s \in {p \in DOMAIN nodes : nodes[p].kind = "Semantic"} :
        /\ edges' = Linked(nodes, edges, "ABSTRACTS_TO", nodes[i].id, nodes[s].id)
        /\ last' = Call("link_issue_abstracts_to_semantic",
                        [type |-> "ABSTRACTS_TO", from_id |-> nodes[i].id,
                         to_id |-> nodes[s].id],
                        LinkOutcome(nodes, "ABSTRACTS_TO", nodes[i].id, nodes[s].id))
    /\ UNCHANGED <<nodes, policy_threshold, prev, callers>>

FindPatterns ==
    /\ \E k \in 1..MaxK :
        last' = Call("find_semantic_patterns",
                     [embedding |-> 0, top_k |-> k],
                     find_semantic_patterns(nodes, edges, 0, k))
    /\ UNCHANGED <<nodes, edges, policy_threshold, prev, callers>>

NextPatterns == PatternCreateIssue \/ PatternLink \/ FindPatterns

SpecPatterns == InitPatterns /\ [][NextPatterns]_vars

\* The last call was find_semantic_patterns(PQ, PK); Patterns is what it
\* returned.  (The query leaves the store as it was.)
Aggregated == last.op = "find_semantic_patterns"

PQ == last.arg.embedding

PK == last.arg.top_k

Patterns == last.ret

\* The score of a stored Issue against the query.
IssueScore(i) == Score(PQ, nodes[i].emb)

\* The Issues among the 3k nearest, read off the store.
Nearest3K ==
    LET r == Ranked(nodes, Indexed(nodes, "Issue"), PQ)
    IN  {r[i] : i \in 1..Min(3 * PK, Len(r))}

\* The distinct Issues that contribute to the Semantic with the given id: among
\* the 3k nearest, at or above the floor, and linked to it.
Contributors(id) ==
    {i \in Nearest3K :
        /\ IssueScore(i) >= 85
        /\ \E e \in BagToSet(edges) :
            e.type = "ABSTRACTS_TO" /\ e.src = i /\ nodes[e.dst].id = id}

\* The edges without those that leave an Issue scoring below the floor.
EdgesOfSurvivors ==
    LET keep == {e \in BagToSet(edges) : IssueScore(e.src) >= 85}
    IN  [e \in keep |-> CopiesIn(e, edges)]

\* Three Issues scoring 0.9, 0.9 and 0.7, each linked once to the one Semantic
\* the store holds.
ThreeIssuesOneSemantic ==
    /\ \E s \in DOMAIN nodes : nodes[s].kind = "Semantic" /\
        edges = SetToBag({[type |-> "ABSTRACTS_TO", src |-> i, dst |-> s] :
                            i \in StoredIssues})
    /\ Cardinality({s \in DOMAIN nodes : nodes[s].kind = "Semantic"}) = 1
    /\ Cardinality({i \in StoredIssues : IssueScore(i) = 90}) = 2
    /\ Cardinality({i \in StoredIssues : IssueScore(i) = 70}) = 1
    /\ Cardinality(StoredIssues) = 3

\* C9: find_semantic_patterns drops the Issues scoring below 0.85 before the
\* ABSTRACTS_TO traversal: every returned Semantic has a contributing Issue at
\* or above the floor, the result is what it would be without the edges of the
\* Issues below the floor (they add to no frequency and no avg_similarity),
\* and three Issues of one Semantic scoring 0.9, 0.9 and 0.7 give frequency 2.
C9_FloorBeforeTraversal ==
    Aggregated =>
        /\ \A i \in DOMAIN Patterns : Contributors(Patterns[i].id) # {}
        /\ Patterns = find_semantic_patterns(nodes, EdgesOfSurvivors, PQ, PK)
        /\ ThreeIssuesOneSemantic =>
            /\ Len(Patterns) = 1
            /\ Patterns[1].frequency = 2
            /\ Patterns[1].avg_similarity = [num |-> 180, den |-> 2]

\* C9 witness: the three-Issue scenario, queried.
C9_Witness == Aggregated /\ ThreeIssuesOneSemantic

\* C10 (as claimed): on every graph the create_* and link_* operations reach
\* (link_issue_abstracts_to_semantic called more than once for one Issue and
\* Semantic included), the frequency reported for a Semantic is the number of
\* distinct surviving Issues linked to it, and avg_similarity is the mean of
\* those distinct Issues' scores.
C10_FrequencyCountsDistinctIssues ==
    Aggregated =>
        \A i \in DOMAIN Patterns :
            LET c == Contributors(Patterns[i].id)
                total == SumSeq([n \in 1..Cardinality(c) |->
                            IssueScore(CHOOSE j \in c :
                                Cardinality({x \in c : x < j}) = n - 1)])
            IN  /\ Patterns[i].frequency = Cardinality(c)
                /\ Patterns[i].avg_similarity.num * Cardinality(c)
                     = total * Patterns[i].avg_similarity.den

\* No Issue is linked twice to one Semantic.
LinkedOnce == \A e \in BagToSet(edges) : CopiesIn(e, edges) = 1

\* C10 on the graphs where no link was made twice: it holds there, so the
\* repeated link is its only failure.
C10_OnSingleLinks == LinkedOnce => C10_FrequencyCountsDistinctIssues

----------------------------------------------------------------------------
(* Ranking of the patterns, with more Issues stored than the query fetches: *)
(* claim C11                                                                *)

MaxRanked == 4

\* The store the scenario starts from: two Semantic nodes (ids 11, 12).
InitRanking ==
    /\ nodes = [i \in 1..2 |-> NodeOf(Entity("Semantic", 10 + i, None, "None"))]
    /\ edges = EmptyBag
    /\ policy_threshold = InitThreshold(None, None)
    /\ last = NoCall
    /\ prev = NoCall
    /\ callers = Idle

\* create_issue of a new Issue object whose embedding scores 0.90 or 0.85
\* against the query.
RankCreateIssue ==
    /\ Cardinality(StoredIssues) < MaxRanked
    /\ \E e \in {1, 3} :
        LET issue == Entity("Issue", Cardinality(StoredIssues) + 1, e, "None")
        IN  /\ nodes' = CreateNode(nodes, issue)
            /\ last' = Call("create_issue", issue, issue.id)
    /\ UNCHANGED <<edges, policy_threshold, prev, callers>>

NextRanking == RankCreateIssue \/ PatternLink \/ FindPatterns

SpecRanking == InitRanking /\ [][NextRanking]_vars

StoredSemantics == {p \in DOMAIN nodes : nodes[p].kind = "Semantic"}

\* The 3k nearest Issues in index order, read off the store.
Nearest3KSeq ==
    LET r == Ranked(nodes, Indexed(nodes, "Issue"), PQ)
    IN  SubSeq(r, 1, Min(3 * PK, Len(r)))

\* For Semantic node s: the number of ABSTRACTS_TO edges into it from the 3k
\* nearest Issues that score at or above the floor, and the sum of the scores
\* those edges carry.
CountedFor(s) ==
    LET near == Nearest3KSeq
        n == [x \in DOMAIN near |->
                IF IssueScore(near[x]) >= 85
                THEN CopiesIn([type |-> "ABSTRACTS_TO", src |-> near[x], dst |-> s],
                              edges)
                ELSE 0]
    IN  [frequency |-> SumSeq(n),
         score_sum |-> SumSeq([x \in DOMAIN near |-> n[x] * IssueScore(near[x])])]

FrequencyOf(s) == CountedFor(s).frequency

\* Counted group c comes strictly before the returned pattern row in the
\* order frequency descending, then avg_similarity descending.
Outranks(c, row) ==
    \/ c.frequency > row.frequency
    \/ /\ c.frequency = row.frequency
       /\ c.score_sum * row.avg_similarity.den
            > row.avg_similarity.num * c.frequency

\* C11: find_semantic_patterns(v, k) considers only the 3k nearest Issues,
\* returns at most k patterns, each Semantic at most once, ordered by frequency
\* descending with ties ordered by avg_similarity descending, and no omitted
\* Semantic outranks a returned one in that order.
C11_TopKPatterns ==
    Aggregated =>
        LET counted == [s \in StoredSemantics |-> CountedFor(s)]
        IN  /\ Len(Patterns) <= PK
            /\ \A i, j \in DOMAIN Patterns : Patterns[i].id = Patterns[j].id => i = j
            /\ \A i \in DOMAIN Patterns :
                \E s \in StoredSemantics :
                    /\ nodes[s].id = Patterns[i].id
                    /\ Patterns[i].frequency = counted[s].frequency
                    /\ Patterns[i].frequency > 0
                    /\ Patterns[i].avg_similarity =
                            [num |-> counted[s].score_sum, den |-> counted[s].frequency]
            /\ \A i, j \in DOMAIN Patterns :
                i < j =>
                    \/ Patterns[i].frequency > Patterns[j].frequency
                    \/ /\ Patterns[i].frequency = Patterns[j].frequency
                       /\ Patterns[i].avg_similarity.num * Patterns[j].avg_similarity.den
                            >= Patterns[j].avg_similarity.num * Patterns[i].avg_similarity.den
            /\ \A s \in StoredSemantics :
                (\A i \in DOMAIN Patterns : Patterns[i].id # nodes[s].id)
                => \/ counted[s].frequency = 0
                   \/ /\ Len(Patterns) = PK
                      /\ \A i \in DOMAIN Patterns : ~Outranks(counted[s], Patterns[i])

\* C11 witness: k = 1 and four Issues at or above the floor are stored, so one
\* of them is beyond the 3k nearest; it is linked to a Semantic, and a
\* Semantic with a counted Issue is left out of the one-row result.
C11_Witness ==
    /\ Aggregated
    /\ PK = 1
    /\ Len(Patterns) = 1
    /\ \E i \in StoredIssues :
        /\ i \notin Nearest3K
        /\ IssueScore(i) >= 85
        /\ \E e \in BagToSet(edges) : e.src = i
    /\ \E s \in StoredSemantics :
        FrequencyOf(s) > 0 /\ nodes[s].id # Patterns[1].id

----------------------------------------------------------------------------
(* Semantic pattern aggregation, Mode B: claims C12, C13 *)

\* An Issue object with its description text.
Described(entity, description) ==
    [kind |-> entity.kind, id |-> entity.id, emb |-> entity.emb,
     succ |-> entity.succ, description |-> description]

\* n.key in a query: a property the node does not have reads as null.
Property(node, key) == IF key \in DOMAIN node THEN node[key] ELSE None

\* What the method hands back, and the number of queries it ran on the store.
Answer(rows, queries) == [rows |-> rows, queries |-> queries]

\* EmptyIds with the early return left out.
EmptyIdsNever(attempt_ids) == FALSE

\* `if not attempt_ids`
EmptyIds(attempt_ids) == attempt_ids = {}

\* MATCH (a:Attempt)-[:CAUSES]->(i:Issue)-[:ABSTRACTS_TO]->(s:Semantic)
\* WHERE a.id IN $attempt_ids: the paths the match binds.
ModeBPaths(ns, es, attempt_ids) ==
    LET causes == {e \in BagToSet(es) :
                      /\ e.type = "CAUSES"
                      /\ ns[e.src].kind = "Attempt"
                      /\ ns[e.dst].kind = "Issue"
                      /\ ns[e.src].id \in attempt_ids}
        abstracts == {e \in BagToSet(es) :
                         /\ e.type = "ABSTRACTS_TO"
                         /\ ns[e.src].kind = "Issue"
                         /\ ns[e.dst].kind = "Semantic"}
    IN  {[a |-> p[1].src, i |-> p[1].dst, s |-> p[2].dst] :
            p \in {q \in causes \X abstracts : q[1].dst = q[2].src}}

\* The members of a set of node positions, in store order.
RECURSIVE InOrder(_)
InOrder(S) ==
    IF S = {} THEN <<>>
    ELSE LET m == CHOOSE p \in S : \A r \in S : p <= r
         IN  <<m>> \o InOrder(S \ {m})

\* DISTINCT on a list: each value once, at its first place.
RECURSIVE Distinct(_)
Distinct(s) ==
    IF s = <<>> THEN <<>>
    ELSE <<Head(s)>> \o Distinct(SelectSeq(Tail(s), LAMBDA x : x # Head(s)))

\* count(i): one per path, an Issue reached over two paths counted twice.
IssueCountPerPath(paths, s) == Cardinality({p \in paths : p.s = s})

\* count(DISTINCT i)
IssueCount(paths, s) == Cardinality({p.i : p \in {r \in paths : r.s = s}})

\* WITH s, count(DISTINCT i) as issue_count,
\*      collect(DISTINCT i.description)[0..3] as sample_issues
\* (collect leaves out the nulls).
ModeBGroup(ns, paths, s) ==
    LET issues == InOrder({p.i : p \in {r \in paths : r.s = s}})
        descriptions == [n \in DOMAIN issues |-> Property(ns[issues[n]], "description")]
    IN  [node |-> s,
         id |-> ns[s].id,
         issue_count |-> IssueCount(paths, s),
         sample_issues |->
            Take(Distinct(SelectSeq(descriptions, LAMBDA d : d # None)), 3)]

\* ORDER BY issue_count DESC; groups of equal count in the order of their
\* Semantic nodes.
ModeBBefore(a, b) ==
    \/ a.issue_count > b.issue_count
    \/ a.issue_count = b.issue_count /\ a.node < b.node

RECURSIVE ModeBOrder(_)
ModeBOrder(G) ==
    IF G = {} THEN <<>>
    ELSE LET g == CHOOSE a \in G : \A b \in G \ {a} : ModeBBefore(a, b)
         IN  <<g>> \o ModeBOrder(G \ {g})

\* attempt_ids is the set of the ids in the list passed.
get_semantics_for_attempts(ns, es, attempt_ids) ==
    IF EmptyIds(attempt_ids)
    THEN Answer(<<>>, 0)
    ELSE LET paths == ModeBPaths(ns, es, attempt_ids)
             ordered == ModeBOrder({ModeBGroup(ns, paths, s) : s \in {p.s : p \in paths}})
         IN  Answer([n \in DOMAIN ordered |->
                        [id |-> ordered[n].id,
                         issue_count |-> ordered[n].issue_count,
                         sample_issues |-> ordered[n].sample_issues]],
                    1)

MaxCaused == 4

\* The stores of the scenario: Attempts 1 and 2 and Semantics 11 and 12, and
\* up to MaxCaused Issues (ids 21, 22, ...), each with a description of its
\* own, caused by none, one or both of the Attempts and abstracted to one of
\* the Semantics.  Each is a store that create_* and link_* calls build.
CausedBy == UNION {[1..n -> (SUBSET {1, 2}) \X {3, 4}] : n \in 0..MaxCaused}

ModeBNodes(f) ==
    <<NodeOf(Entity("Attempt", 1, 0, "True")),
      NodeOf(Entity("Attempt", 2, 0, "False")),
      NodeOf(Entity("Semantic", 11, None, "None")),
      NodeOf(Entity("Semantic", 12, None, "None"))>>
    \o [n \in DOMAIN f |-> NodeOf(Described(Entity("Issue", 20 + n, 0, "None"), n))]

ModeBEdges(f) ==
    SetToBag({[type |-> "CAUSES", src |-> p[2], dst |-> 4 + p[1]] :
                 p \in {q \in (DOMAIN f) \X {1, 2} : q[2] \in f[q[1]][1]}})
    (+) SetToBag({[type |-> "ABSTRACTS_TO", src |-> 4 + n, dst |-> f[n][2]] :
                     n \in DOMAIN f})

InitModeB ==
    /\ \E f \in CausedBy : nodes = ModeBNodes(f) /\ edges = ModeBEdges(f)
    /\ policy_threshold = InitThreshold(None, None)
    /\ last = NoCall
    /\ prev = NoCall
    /\ callers = Idle

\* The Attempt-id lists passed: empty, ids of stored Attempts, and an id (9)
\* of no stored node.
AttemptIdLists == (SUBSET {1, 2}) \cup {{2, 9}}

GetSemanticsForAttempts ==
    /\ \E attempt_ids \in AttemptIdLists :
        last' = Call("get_semantics_for_attempts", attempt_ids,
                     get_semantics_for_attempts(nodes, edges, attempt_ids))
    /\ UNCHANGED <<nodes, edges, policy_threshold, prev, callers>>

NextModeB == GetSemanticsForAttempts

SpecModeB == InitModeB /\ [][NextModeB]_vars

\* The last call was get_semantics_for_attempts(last.arg).
ModeBCalled == last.op = "get_semantics_for_attempts"

\* The Issues that lie on a path Attempt-CAUSES->Issue-ABSTRACTS_TO->Semantic s
\* from a stored Attempt whose id is in ids, read off the store.
IssuesBetween(ids, s) ==
    {i \in DOMAIN nodes :
        /\ nodes[i].kind = "Issue"
        /\ [type |-> "ABSTRACTS_TO", src |-> i, dst |-> s] \in BagToSet(edges)
        /\ \E a \in DOMAIN nodes :
            /\ nodes[a].kind = "Attempt"
            /\ nodes[a].id \in ids
            /\ [type |-> "CAUSES", src |-> a, dst |-> i] \in BagToSet(edges)}

\* C12: get_semantics_for_attempts called with an empty Attempt-id list
\* returns an empty list and issues no query to the graph store, in every
\* store state.
C12_EmptyIdsNoQuery ==
    (ModeBCalled /\ last.arg = {}) => last.ret = Answer(<<>>, 0)

\* C12 witness: the empty list was passed on a store that holds a path from an
\* Attempt to a Semantic.
C12_Witness ==
    /\ ModeBCalled
    /\ last.arg = {}
    /\ \E s \in StoredSemantics : IssuesBetween({1, 2}, s) # {}

\* C13: get_semantics_for_attempts(ids) returns exactly the Semantics
\* reachable by Attempt-CAUSES->Issue-ABSTRACTS_TO->Semantic from an Attempt
\* whose id is in ids (Issues of other Attempts contribute nothing); each
\* Semantic appears once, with issue_count the number of distinct such Issues
\* and sample_issues at most 3 distinct descriptions of those Issues; the
\* results are ordered by issue_count descending.
C13_ModeBAggregation ==
    ModeBCalled =>
        LET rows == last.ret.rows
            ids == last.arg
        IN  /\ {rows[n].id : n \in DOMAIN rows}
                 = {nodes[s].id : s \in {t \in StoredSemantics :
                                            IssuesBetween(ids, t) # {}}}
            /\ \A n, m \in DOMAIN rows : rows[n].id = rows[m].id => n = m
            /\ \A n \in DOMAIN rows :
                \E s \in StoredSemantics :
                    LET between == IssuesBetween(ids, s)
                        sample == rows[n].sample_issues
                    IN  /\ nodes[s].id = rows[n].id
                        /\ rows[n].issue_count = Cardinality(between)
                        /\ Len(sample) =
                             Min(3, Cardinality({nodes[i].description : i \in between}))
                        /\ \A x, y \in DOMAIN sample : sample[x] = sample[y] => x = y
                        /\ \A x \in DOMAIN sample :
                            \E i \in between : nodes[i].description = sample[x]
            /\ \A n, m \in DOMAIN rows :
                n < m => rows[n].issue_count >= rows[m].issue_count

\* C13 witness: Attempt 1 was passed and caused four Issues of one Semantic,
\* one of them caused by Attempt 2 as well: the count is 4 and three
\* descriptions are sampled.
C13_Witness ==
    /\ ModeBCalled
    /\ last.arg = {1}
    /\ Len(last.ret.rows) = 1
    /\ last.ret.rows[1].issue_count = 4
    /\ Len(last.ret.rows[1].sample_issues) = 3
    /\ \E i \in StoredIssues :
        \A a \in {1, 2} : [type |-> "CAUSES", src |-> a, dst |-> i] \in BagToSet(edges)

----------------------------------------------------------------------------
(* Candidates without an embedding: claim C14 *)

GetOrCreateOps == {"get_or_create_policy", "get_or_create_semantic"}

\* The last call was a get_or_create_* call for a candidate with no embedding.
UpsertWithoutEmbedding ==
    /\ last.op \in GetOrCreateOps
    /\ last.arg.entity.emb = None

\* The call returned (candidate id, True) and the candidate is the node
\* stored last.
CreatedUnconditionally ==
    /\ last.ret = Ret(last.arg.entity.id, TRUE)
    /\ nodes # <<>>
    /\ nodes[Len(nodes)] = NodeOf(last.arg.entity)

\* C14 (as claimed): when the candidate carries no embedding, both
\* get_or_create_policy and get_or_create_semantic skip the similarity query
\* and create the candidate unconditionally, returning the candidate's id
\* with created=true.
C14_NoEmbeddingCreates == UpsertWithoutEmbedding => CreatedUnconditionally

\* C14 for get_or_create_semantic alone: it holds there, so
\* get_or_create_policy is its only failure.
C14_OnSemantic ==
    (UpsertWithoutEmbedding /\ last.op = "get_or_create_semantic")
    => CreatedUnconditionally

\* get_or_create_policy for a candidate with no embedding raised and stored
\* nothing.
C14_PolicyRaises ==
    (UpsertWithoutEmbedding /\ last.op = "get_or_create_policy")
    => last.ret = Raised

----------------------------------------------------------------------------
(* Threshold precedence: claim C15 *)

\* The thresholds given to the constructor, set in the environment and
\* passed per call, in per cent; None where none is given.
CtorThresholds == {None, 0, 80}

EnvThresholds == {None, 95}

CallThresholds == {None, 0, 80}

\* get_or_create_semantic's `threshold: float = 0.85`: the default applies
\* when the caller passes no threshold.
SemanticThreshold(supplied) ==
    IF supplied = None THEN DEFAULT_SEMANTIC_THRESHOLD ELSE supplied

\* GraphManager(policy_threshold=ctor) with POLICY_THRESHOLD=env, on a store
\* that holds at most one Policy or Semantic node.  prev keeps the
\* constructor call.
InitThresholds ==
    /\ \E f \in {g \in PriorStores : Len(g) <= 1} : nodes = PriorNodes(f)
    /\ edges = EmptyBag
    /\ \E ctor \in CtorThresholds, env \in EnvThresholds :
        /\ policy_threshold = InitThreshold(ctor, env)
        /\ prev = Call("__init__", [policy_threshold |-> ctor, env |-> env], None)
    /\ last = NoCall
    /\ callers = Idle

ThresholdPolicyCall ==
    /\ \E e \in Emb, threshold \in CallThresholds :
        LET policy == Entity("Policy", 1, e, "None")
            r == get_or_create_policy(nodes, policy_threshold, policy, threshold)
        IN  /\ Len(r.nodes) <= MaxNodes
            /\ nodes' = r.nodes
            /\ last' = Call("get_or_create_policy",
                            [entity |-> policy, threshold |-> threshold], r.ret)
    /\ UNCHANGED <<edges, policy_threshold, prev, callers>>

ThresholdSemanticCall ==
    /\ \E e \in Emb, threshold \in CallThresholds :
        LET semantic == Entity("Semantic", 2, e, "None")
            r == get_or_create_semantic(nodes, semantic, SemanticThreshold(threshold))
        IN  /\ Len(r.nodes) <= MaxNodes
            /\ nodes' = r.nodes
            /\ last' = Call("get_or_create_semantic",
                            [entity |-> semantic, threshold |-> threshold], r.ret)
    /\ UNCHANGED <<edges, policy_threshold, prev, callers>>

NextThresholds == ThresholdPolicyCall \/ ThresholdSemanticCall

SpecThresholds == InitThresholds /\ [][NextThresholds]_vars

\* The threshold the claim names for the last call.
ClaimedThreshold ==
    IF last.arg.threshold # None THEN last.arg.threshold
    ELSE IF last.op = "get_or_create_semantic" THEN 85
    ELSE IF prev.arg.policy_threshold # None THEN prev.arg.policy_threshold
    ELSE IF prev.arg.env # None THEN prev.arg.env
    ELSE 90

\* The nodes stored when the last call was made.
NodesBefore ==
    IF last.ret.created THEN SubSeq(nodes, 1, Len(nodes) - 1) ELSE nodes

\* The top-1 score the last call got from the index; None on an empty index.
TopScore ==
    LET res == QueryNodes(NodesBefore, last.arg.entity.kind, 1, last.arg.entity.emb)
    IN  IF res = <<>> THEN None ELSE res[1].score

\* The last call returned an existing node exactly when the top-1 score was
\* at or above the threshold t.
ComparedAgainst(t) ==
    last.ret.created = ~(TopScore # None /\ TopScore >= t)

\* C15 (as claimed): the threshold get_or_create_policy compares the top-1
\* score against is the per-call threshold whenever one is supplied (0
\* included), else the per-instance policy_threshold whenever one was given to
\* the constructor (0 included), else the environment default (0.9 when
\* unset); get_or_create_semantic uses 0.85 when no threshold is supplied.
C15_ThresholdPrecedence ==
    last.op \in GetOrCreateOps => ComparedAgainst(ClaimedThreshold)

\* No threshold of 0 was given to the constructor or to the last call.
NoZeroThreshold ==
    \/ last.op = "get_or_create_semantic"
    \/ /\ last.arg.threshold # 0
       /\ (last.arg.threshold = None => prev.arg.policy_threshold # 0)

\* C15 where no threshold of 0 is in play for get_or_create_policy: it holds
\* there, so a threshold of 0 is its only failure.
C15_OnNonZero ==
    (last.op \in GetOrCreateOps /\ NoZeroThreshold)
    => ComparedAgainst(ClaimedThreshold)

----------------------------------------------------------------------------
(* Issue classifier: claims C16, C17 *)

\* Category names the external classification returns.
Names == {"A", "B"}

MaxUuid == 3

\* The values uuid4() can return; a new one differs from every id in use.
Uuids == 1..MaxUuid

FreshUuids(ns) == Uuids \ {ns[p].id : p \in DOMAIN ns}

\* Semantic(id=..., name=..., description=...): a Semantic object; its
\* embedding is None until with_embedding is called.
Semantic(id, name, emb) ==
    [kind |-> "Semantic", id |-> id, emb |-> emb, succ |-> "None", name |-> name]

\* MATCH (s:Semantic) RETURN s.id as id, s.name as name, ...: one row per
\* stored Semantic node; a property the node does not have reads as null.
get_all_semantics(ns) ==
    LET stored == InOrder({p \in DOMAIN ns : ns[p].kind = "Semantic"})
    IN  [n \in DOMAIN stored |->
            [id |-> ns[stored[n]].id,
             name |-> Property(ns[stored[n]], "name")]]

\* FindByName with the name left unchecked: every stored category matches.
FindByNameAny(existing, name) == existing

\* `for s in existing: if s['name'] == result.category_name`: the rows the
\* loop would stop at, the first of them first.
FindByName(existing, name) == SelectSeq(existing, LAMBDA s : s.name = name)

\* What classify_issue returns: (semantic, is_new).
Classified(semantic, is_new) == [semantic |-> semantic, is_new |-> is_new]

\* classify_issue with the name looked up before the new-category flag is
\* read: a proposed category that is stored already comes back as existing.
classify_issue_lookup_first(existing, result, uuid, embedding) ==
    LET found == FindByName(existing, result.category_name)
    IN  IF found # <<>>
        THEN Classified(Semantic(found[1].id, found[1].name, None), FALSE)
        ELSE Classified(Semantic(uuid, result.category_name, embedding), TRUE)

\* classify_issue, from the rows of get_all_semantics and the parsed decision
\* of the external classification; uuid and embedding are what uuid4() and
\* get_embedding() yield for a Semantic built here.
classify_issue(existing, result, uuid, embedding) ==
    IF result.is_new_category
    THEN Classified(Semantic(uuid, result.category_name, embedding), TRUE)
    ELSE LET found == FindByName(existing, result.category_name)
         IN  IF found # <<>>
             THEN Classified(Semantic(found[1].id, found[1].name, None), FALSE)
             ELSE Classified(Semantic(uuid, result.category_name, embedding), TRUE)

\* SemanticClassification as parsed from the external decision.
Decisions == [is_new_category : BOOLEAN, category_name : Names]

ClassifyIssue ==
    /\ \E result \in Decisions, uuid \in FreshUuids(nodes), embedding \in EmbMain :
        last' = Call("classify_issue", result,
                     classify_issue(get_all_semantics(nodes), result, uuid, embedding))
    /\ UNCHANGED <<nodes, edges, policy_threshold, prev, callers>>

\* get_or_create_semantic of the Semantic the last classification returned as
\* new: the later call that merges it or stores it.
StoreClassified ==
    /\ last.op = "classify_issue"
    /\ last.ret.is_new
    /\ LET r == get_or_create_semantic(nodes, last.ret.semantic,
                                       DEFAULT_SEMANTIC_THRESHOLD)
       IN  /\ Len(r.nodes) <= MaxNodes
           /\ nodes' = r.nodes
           /\ last' = Call("get_or_create_semantic",
                           [entity |-> last.ret.semantic,
                            threshold |-> DEFAULT_SEMANTIC_THRESHOLD], r.ret)
    /\ UNCHANGED <<edges, policy_threshold, prev, callers>>

NextClassify == ClassifyIssue \/ StoreClassified

SpecClassify == Init /\ [][NextClassify]_vars

\* The last call was classify_issue; the decision it got said 'existing' or
\* proposed a new category.
ClassifiedLast == last.op = "classify_issue"

SaidExisting == ClassifiedLast /\ ~last.arg.is_new_category

SaidNew == ClassifiedLast /\ last.arg.is_new_category

\* The stored Semantic nodes that carry the name the decision gave.
StoredWithName ==
    {p \in StoredSemantics : nodes[p].name = last.arg.category_name}

\* The call returned a newly built Semantic of the decision's name, with an
\* id no stored node has, and is_new = true.
ReturnedFresh ==
    /\ last.ret.is_new = TRUE
    /\ last.ret.semantic.name = last.arg.category_name
    /\ \A p \in DOMAIN nodes : nodes[p].id # last.ret.semantic.id

\* C16: classify_issue never fails on decision/state skew: when the decision
\* says 'existing' and a stored Semantic has exactly that name, it returns a
\* Semantic carrying that stored node's id with is_new=false; when the
\* decision says 'existing' and no stored Semantic has that name, it returns a
\* freshly built Semantic (fresh id) with is_new=true.
C16_ExistingByNameOrFresh ==
    SaidExisting =>
        IF StoredWithName # {}
        THEN /\ last.ret.is_new = FALSE
             /\ \E p \in StoredWithName : last.ret.semantic.id = nodes[p].id
        ELSE ReturnedFresh

\* C16 witness: the decision said 'existing' and named a category that is not
\* stored, while a Semantic of another name is.
C16_Witness ==
    /\ SaidExisting
    /\ StoredWithName = {}
    /\ StoredSemantics # {}
    /\ last.ret.is_new

\* The last step was a classify_issue call.
ClassifyStep == last'.op = "classify_issue" /\ last' # last

\* C17: when the decision proposes a new category, classify_issue returns
\* is_new=true and a Semantic with a fresh id unconditionally, also when a
\* stored Semantic has the same name; and classify_issue writes nothing to the
\* graph.
C17_NewIsUnconditional ==
    /\ [](SaidNew => ReturnedFresh)
    /\ [][ClassifyStep => (nodes' = nodes /\ edges' = edges)]_vars

\* C17 witness: a new category was proposed under the name of a stored
\* Semantic.
C17_Witness == SaidNew /\ StoredWithName # {} /\ ReturnedFresh

----------------------------------------------------------------------------
(* Creation without dedup: claim C19 *)

NoDedupOps == {"create_attempt", "create_issue", "create_fix"}

KindOf(op) ==
    CASE op = "create_attempt" -> "Attempt"
      [] op = "create_issue" -> "Issue"
      [] op = "create_fix" -> "Fix"

\* The step is a call of create_attempt, create_issue or create_fix.
NoDedupStep == last'.op \in NoDedupOps /\ <<last, nodes>>' # <<last, nodes>>

\* The step added exactly one node, of the kind of the call and with the id
\* of the entity passed, and left the nodes stored before as they were.
AddedOne ==
    /\ Len(nodes') = Len(nodes) + 1
    /\ SubSeq(nodes', 1, Len(nodes)) = nodes
    /\ nodes'[Len(nodes')].kind = KindOf(last'.op)
    /\ nodes'[Len(nodes')].id = last'.arg.id
    /\ last'.ret = last'.arg.id

\* C19: create_attempt, create_issue and create_fix never deduplicate: each
\* call adds exactly one new node of its kind, however similar (or identical
\* in text and embedding) it is to nodes already stored, so n calls with
\* distinct entities leave n more nodes.
C19_CreateNeverDedups == [][NoDedupStep => AddedOne]_vars

\* C19 witness: a create_* call for an entity with the embedding of a stored
\* node of its kind: two nodes of the kind with one embedding and two ids.
C19_Witness ==
    /\ last.op \in NoDedupOps
    /\ \E p, q \in DOMAIN nodes :
        /\ p < q
        /\ q = Len(nodes)
        /\ nodes[q] = NodeOf(last.arg)
        /\ nodes[p].kind = nodes[q].kind
        /\ nodes[p].emb = nodes[q].emb
        /\ nodes[p].id # nodes[q].id

----------------------------------------------------------------------------
(* Node identifiers: claim C20 *)

CreateOps == {"create_policy", "create_attempt", "create_issue", "create_fix",
              "create_semantic"}

LabelOf(op) ==
    CASE op \in {"create_policy", "get_or_create_policy"} -> "Policy"
      [] op = "create_attempt" -> "Attempt"
      [] op = "create_issue" -> "Issue"
      [] op = "create_fix" -> "Fix"
      [] op \in {"create_semantic", "get_or_create_semantic"} -> "Semantic"

\* A call of a create or get_or_create method with the entity passed: the
\* nodes afterwards and what the call returns.
Stored(ns, inst_threshold, op, entity) ==
    IF op = "get_or_create_policy"
    THEN get_or_create_policy(ns, inst_threshold, entity, None)
    ELSE IF op = "get_or_create_semantic"
    THEN get_or_create_semantic(ns, entity, DEFAULT_SEMANTIC_THRESHOLD)
    ELSE [nodes |-> CreateNode(ns, entity), ret |-> entity.id]

\* A create or get_or_create call with an entity object built for the call:
\* its id is a new uuid4.
CallWithNewEntity ==
    /\ \E op \in CreateOps \cup GetOrCreateOps, uuid \in FreshUuids(nodes),
          e \in EmbMain \cup {None} :
        LET entity == Entity(LabelOf(op), uuid, e, "None")
            r == Stored(nodes, policy_threshold, op, entity)
        IN  /\ Len(r.nodes) <= MaxNodes
            /\ nodes' = r.nodes
            /\ last' = Call(op, entity, r.ret)
            /\ prev' = Call("new", None, None)
    /\ UNCHANGED <<edges, policy_threshold, callers>>

\* The same method called again with an entity object that was passed to it
\* before and is stored.
CallWithSameEntity ==
    /\ \E op \in CreateOps \cup GetOrCreateOps, p \in DOMAIN nodes :
        LET entity == nodes[p]
            r == Stored(nodes, policy_threshold, op, entity)
        IN  /\ entity.kind = LabelOf(op)
            /\ Len(r.nodes) <= MaxNodes
            /\ nodes' = r.nodes
            /\ last' = Call(op, entity, r.ret)
            /\ prev' = Call("again", None, None)
    /\ UNCHANGED <<edges, policy_threshold, callers>>

NextIds == CallWithNewEntity \/ CallWithSameEntity

SpecIds == Init /\ [][NextIds]_vars

\* C20 (as claimed): in every reachable store state, under any sequence of
\* create_* and get_or_create_* calls (a create operation called twice with
\* the same entity object included), no two stored nodes share an id.
C20_UniqueNodeIds ==
    \A p, q \in DOMAIN nodes : nodes[p].id = nodes[q].id => p = q

\* Every id is stored once as long as no entity object is passed twice.
C20_UniqueUnlessPassedTwice ==
    [][(prev'.op = "new" /\ C20_UniqueNodeIds) => C20_UniqueNodeIds']_vars

----------------------------------------------------------------------------
(* The queries, and clear_all: claim C18 *)

find_similar_attempts(ns, embedding, top_k) == AttemptRows(ns, embedding, top_k)

find_similar_issues(ns, embedding, top_k) ==
    LET res == QueryNodes(ns, "Issue", top_k, embedding)
    IN  [i \in DOMAIN res |-> [id |-> ns[res[i].node].id, score |-> res[i].score]]

RECURSIVE Copies(_, _)
Copies(x, n) == IF n = 0 THEN <<>> ELSE <<x>> \o Copies(x, n - 1)

RECURSIVE Concat(_)
Concat(ss) == IF ss = <<>> THEN <<>> ELSE Head(ss) \o Concat(Tail(ss))

\* MATCH (a)-[:TYPE]->(b) with one end fixed by id, RETURN the other end: one
\* row per stored edge between a node of srcs and a node of dsts, carrying
\* the id of the node at the returned end.
PathRows(ns, es, type, srcs, dsts, end) ==
    LET firsts == InOrder(srcs)
        others == InOrder(dsts)
    IN  Concat([x \in 1..(Len(firsts) * Len(others)) |->
            LET a == firsts[((x - 1) \div Len(others)) + 1]
                b == others[((x - 1) % Len(others)) + 1]
            IN  Copies([id |-> IF end = "src" THEN ns[a].id ELSE ns[b].id],
                       CopiesIn([type |-> type, src |-> a, dst |-> b], es))])

Labelled(ns, kind) == {p \in DOMAIN ns : ns[p].kind = kind}

get_attempts_for_policy(ns, es, policy_id) ==
    PathRows(ns, es, "SATISFIES", Labelled(ns, "Attempt"),
             Match(ns, "Policy", policy_id), "src")

get_issues_for_attempt(ns, es, attempt_id) ==
    PathRows(ns, es, "CAUSES", Match(ns, "Attempt", attempt_id),
             Labelled(ns, "Issue"), "dst")

get_fixes_for_issue(ns, es, issue_id) ==
    PathRows(ns, es, "RESOLVES", Labelled(ns, "Fix"),
             Match(ns, "Issue", issue_id), "src")

get_semantics_for_issue(ns, es, issue_id) ==
    PathRows(ns, es, "ABSTRACTS_TO", Match(ns, "Issue", issue_id),
             Labelled(ns, "Semantic"), "dst")

get_issues_for_semantic(ns, es, semantic_id) ==
    PathRows(ns, es, "ABSTRACTS_TO", Labelled(ns, "Issue"),
             Match(ns, "Semantic", semantic_id), "src")

SimilarityOps == {"find_similar_policies", "find_similar_attempts",
                  "find_similar_issues", "find_similar_semantics",
                  "find_contrastive_attempts", "find_semantic_patterns"}

PathOps == {"get_attempts_for_policy", "get_issues_for_attempt",
            "get_fixes_for_issue", "get_semantics_for_issue",
            "get_issues_for_semantic"}

QueryOps == SimilarityOps \cup PathOps
                \cup {"get_all_semantics", "get_semantics_for_attempts"}

\* What a query method returns on the store, for a query embedding, a top_k
\* and an id (each method reads the arguments it takes).
QueryResult(op, ns, es, embedding, top_k, id) ==
    CASE op = "find_similar_policies" -> find_similar_policies(ns, embedding, top_k)
      [] op = "find_similar_attempts" -> find_similar_attempts(ns, embedding, top_k)
      [] op = "find_similar_issues" -> find_similar_issues(ns, embedding, top_k)
      [] op = "find_similar_semantics" -> find_similar_semantics(ns, embedding, top_k)
      [] op = "find_contrastive_attempts" ->
            find_contrastive_attempts(ns, embedding, top_k)
      [] op = "find_semantic_patterns" ->
            find_semantic_patterns(ns, es, embedding, top_k)
      [] op = "get_attempts_for_policy" -> get_attempts_for_policy(ns, es, id)
      [] op = "get_issues_for_attempt" -> get_issues_for_attempt(ns, es, id)
      [] op = "get_fixes_for_issue" -> get_fixes_for_issue(ns, es, id)
      [] op = "get_semantics_for_issue" -> get_semantics_for_issue(ns, es, id)
      [] op = "get_issues_for_semantic" -> get_issues_for_semantic(ns, es, id)
      [] op = "get_all_semantics" -> get_all_semantics(ns)
      [] op = "get_semantics_for_attempts" ->
            get_semantics_for_attempts(ns, es, {id}).rows

\* A find_* query with a query embedding and top_k = 1.
FindQuery ==
    /\ \E op \in SimilarityOps :
        last' = Call(op, [embedding |-> 0, top_k |-> 1],
                     QueryResult(op, nodes, edges, 0, 1, None))
    /\ UNCHANGED <<nodes, edges, policy_threshold, prev, callers>>

\* A get_* query with an id (get_all_semantics takes none).
GetQuery ==
    /\ \E op \in QueryOps \ SimilarityOps, id \in 1..MaxNodes :
        last' = Call(op, [id |-> IF op = "get_all_semantics" THEN None ELSE id],
                     QueryResult(op, nodes, edges, None, None, id))
    /\ UNCHANGED <<nodes, edges, policy_threshold, prev, callers>>

\* A create_* call with an entity object of its own.
QueryCreate ==
    /\ Len(nodes) < MaxNodes
    /\ \E op \in CreateOps :
        LET entity == Entity(LabelOf(op), Len(nodes) + 1, 0,
                             IF op = "create_attempt" THEN "True" ELSE "None")
        IN  /\ nodes' = CreateNode(nodes, entity)
            /\ last' = Call(op, entity, entity.id)
    /\ prev' = NoCall
    /\ UNCHANGED <<edges, policy_threshold, callers>>

LinkType(op) ==
    CASE op = "link_attempt_satisfies_policy" -> "SATISFIES"
      [] op = "link_attempt_causes_issue" -> "CAUSES"
      [] op = "link_fix_resolves_issue" -> "RESOLVES"
      [] op = "link_issue_abstracts_to_semantic" -> "ABSTRACTS_TO"

\* A link_* call with the ids of two stored nodes.
QueryLink ==
    /\ BagCardinality(edges) < MaxEdges
    /\ \E op \in LinkOps, a \in DOMAIN nodes, b \in DOMAIN nodes :
        /\ edges' = Linked(nodes, edges, LinkType(op), nodes[a].id, nodes[b].id)
        /\ last' = Call(op, [type |-> LinkType(op), from_id |-> nodes[a].id,
                             to_id |-> nodes[b].id],
                        LinkOutcome(nodes, LinkType(op), nodes[a].id, nodes[b].id))
    /\ prev' = NoCall
    /\ UNCHANGED <<nodes, policy_threshold, callers>>

\* clear_all; prev keeps the call made before it.
ClearAllCall ==
    /\ nodes' = Cleared.nodes
    /\ edges' = Cleared.edges
    /\ prev' = last
    /\ last' = Call("clear_all", None, None)
    /\ UNCHANGED <<policy_threshold, callers>>

NextQueries ==
    \/ QueryCreate
    \/ QueryLink
    \/ ClearAllCall
    \/ FindQuery
    \/ GetQuery

SpecQueries == Init /\ [][NextQueries]_vars

\* The result is empty: no rows, and for find_contrastive_attempts no item in
\* either partition.
EmptyResult(op, ret) ==
    IF op = "find_contrastive_attempts"
    THEN ret.positive = <<>> /\ ret.negative = <<>>
    ELSE ret = <<>>

\* C18: clear_all is idempotent and total: after clear_all the store holds no
\* nodes and no edges whatever it held before, a second clear_all in a row
\* raises no error and leaves the store empty, and every find_* / get_* query
\* issued on the emptied store returns an empty result.
C18_ClearAllEmpties ==
    /\ last.op = "clear_all" =>
        /\ nodes = <<>>
        /\ edges = EmptyBag
        /\ last.ret = None
        /\ ENABLED ClearAllCall
    /\ (last.op \in QueryOps /\ nodes = <<>>) => EmptyResult(last.op, last.ret)

\* C18 witness: a query ran on the store that two clear_all calls in a row
\* had emptied.
C18_Witness ==
    /\ last.op \in QueryOps
    /\ prev.op = "clear_all"
    /\ nodes = <<>>

-----------------------------------------------------------------------------
(* Upserts as the only writers: claim C21                                  *)
(*                                                                         *)
(* One caller, an empty store, one threshold for every call, candidates    *)
(* that all carry embeddings.                                              *)

MaxStored == 4

\* The thresholds a caller may fix, 0 (every stored node is similar enough)
\* included.
UpsertThresholds == {0, 80, 85, 90, 95, 100}

\* The caller fixes its threshold t by giving it to the constructor
\* (GraphManager(policy_threshold=t)) or by passing it with every call; the
\* environment sets no POLICY_THRESHOLD.
InitUpsert ==
    /\ nodes = <<>>
    /\ edges = EmptyBag
    /\ \E t \in UpsertThresholds : \E ctor \in {None, t} :
        /\ policy_threshold = InitThreshold(ctor, None)
        /\ prev = Call("__init__", [policy_threshold |-> ctor, env |-> None], None)
        /\ callers = [c \in {1, 2} |-> [pc |-> "upsert", threshold |-> t]]
    /\ last = NoCall

\* get_or_create_policy on a new Policy object with an embedding: the
\* caller's threshold is passed with the call, or left to the instance when
\* the constructor was given it.
UpsertPolicy ==
    \E e \in Emb,
       threshold \in (IF prev.arg.policy_threshold = callers[1].threshold
                      THEN {None, callers[1].threshold}
                      ELSE {callers[1].threshold}) :
        LET policy == Entity("Policy", Len(nodes) + 1, e, "None")
            r == get_or_create_policy(nodes, policy_threshold, policy, threshold)
        IN  /\ Len(r.nodes) <= MaxStored
            /\ nodes' = r.nodes
            /\ last' = Call("get_or_create_policy",
                            [entity |-> policy, threshold |-> threshold], r.ret)
            /\ UNCHANGED <<edges, policy_threshold, prev, callers>>

\* get_or_create_semantic on a new Semantic object with an embedding, called
\* with the caller's threshold.
UpsertSemantic ==
    \E e \in Emb :
        LET semantic == Entity("Semantic", Len(nodes) + 1, e, "None")
            r == get_or_create_semantic(nodes, semantic, callers[1].threshold)
        IN  /\ Len(r.nodes) <= MaxStored
            /\ nodes' = r.nodes
            /\ last' = Call("get_or_create_semantic",
                            [entity |-> semantic,
                             threshold |-> callers[1].threshold],
                            r.ret)
            /\ UNCHANGED <<edges, policy_threshold, prev, callers>>

NextUpsert == UpsertPolicy \/ UpsertSemantic

SpecUpsert == InitUpsert /\ [][NextUpsert]_vars

\* The pairs of distinct stored nodes of one label.
SameLabelPairs(kind) ==
    {pq \in (DOMAIN nodes) \X (DOMAIN nodes) :
        /\ pq[1] < pq[2]
        /\ nodes[pq[1]].kind = kind
        /\ nodes[pq[2]].kind = kind}

\* No two stored nodes of the label are as similar as the caller's threshold.
NoTwoSimilar(kind) ==
    \A pq \in SameLabelPairs(kind) :
        Score(nodes[pq[1]].emb, nodes[pq[2]].emb) < callers[1].threshold

\* C21: with get_or_create_policy and get_or_create_semantic as the only
\* writers, called one at a time with one fixed threshold on candidates that
\* all carry embeddings, from an empty store, no two stored Policy nodes and
\* no two stored Semantic nodes have similarity >= the threshold.
C21_NoTwoSimilarStored ==
    NoTwoSimilar("Policy") /\ NoTwoSimilar("Semantic")

\* C21, as far as it holds: no two stored Semantic nodes are as similar as
\* the threshold, and no two stored Policy nodes are when the threshold is
\* not 0.
C21_OnNonZero ==
    /\ NoTwoSimilar("Semantic")
    /\ callers[1].threshold # 0 => NoTwoSimilar("Policy")

\* With threshold 0 the first Semantic stored stays the only one.
C21_OneSemanticAtZero ==
    callers[1].threshold = 0 => SameLabelPairs("Semantic") = {}

----------------------------------------------------------------------------
(* The judge's memory context: claim C22                                   *)

POSITIVE_FLOOR == 80
NEGATIVE_FLOOR == 90
ISSUE_FLOOR == 85
PATTERN_CONTEXT_FLOOR == 85

MaxItems == 3

\* d.get(key, default)
Get(d, key, default) == IF key \in DOMAIN d THEN d[key] ELSE default

\* A score as a fraction of per cents: the mean of a pattern is one, the
\* score of a row of the index is a whole per cent.
Ratio(num, den) == [num |-> num, den |-> den]

\* x.get(key, default), as a fraction.
ScoreOf(item, key, default) ==
    IF key \notin DOMAIN item THEN Ratio(default, 1)
    ELSE IF key = "avg_similarity" THEN item[key]
    ELSE Ratio(item[key], 1)

\* f"{score:.0%}": the whole per cent nearest to the score, a tie going to
\* the even one.
Percent(v) ==
    LET q == v.num \div v.den
        r == v.num % v.den
    IN  IF 2 * r < v.den THEN q
        ELSE IF 2 * r > v.den THEN q + 1
        ELSE IF q % 2 = 0 THEN q ELSE q + 1

\* Passes with an item that has no score counted as a full match.
PassesMissingAsFull(item, key, floor) ==
    LET v == ScoreOf(item, key, 100) IN v.num >= floor * v.den

\* a.get('score', 0) >= floor
Passes(item, key, floor) ==
    LET v == ScoreOf(item, key, 0) IN v.num >= floor * v.den

\* [x for x in rows if x.get(key, 0) >= floor]
Filtered(rows, key, floor) ==
    LET Test(x) == Passes(x, key, floor) IN SelectSeq(rows, Test)

\* The lines of one section of the context: the header, then the lines of
\* each kept row, numbered from 1 (two lines per row where the source
\* appends two).
SectionLines(section, kept, key, per_row) ==
    IF kept = <<>> THEN <<>>
    ELSE <<[section |-> section, line |-> "header"]>> \o
         [n \in 1..(per_row * Len(kept)) |->
            LET i == (n + per_row - 1) \div per_row
            IN  IF per_row = 1 \/ n % 2 = 1
                THEN [section |-> section, line |-> "item", number |-> i,
                      of |-> kept[i].id,
                      similarity |-> Percent(ScoreOf(kept[i], key, 0))]
                ELSE [section |-> section, line |-> "why", number |-> i,
                      of |-> kept[i].id]]

NoExperiences == "No highly similar past experiences found."

\* _format_memory_context(contrastive, similar_issues, semantic_patterns):
\* the lines joined into the context, or the fixed text.
format_memory_context(contrastive, similar_issues, semantic_patterns) ==
    LET positive == Filtered(contrastive.positive, "score", POSITIVE_FLOOR)
        negative == Filtered(contrastive.negative, "score", NEGATIVE_FLOOR)
        issues == Filtered(similar_issues, "score", ISSUE_FLOOR)
        patterns == Filtered(semantic_patterns, "avg_similarity",
                             PATTERN_CONTEXT_FLOOR)
        parts == SectionLines("positive", positive, "score", 2) \o
                 SectionLines("negative", negative, "score", 2) \o
                 SectionLines("issues", issues, "score", 1) \o
                 SectionLines("patterns", patterns, "avg_similarity", 2)
    IN  IF parts # <<>> THEN parts ELSE NoExperiences

Sections == {"positive", "negative", "issues", "patterns"}

\* The scores retrieved rows carry around the floors, by number; number 0 is
\* a row without the key.  The means of patterns include fractions of a per
\* cent (84.5, 84.67, 85.5, 91.67).
RowScores == 0..6

IndexScores == <<79, 80, 84, 85, 89, 90>>

MeanScores == <<Ratio(79, 1), Ratio(169, 2), Ratio(254, 3), Ratio(85, 1),
                Ratio(171, 2), Ratio(275, 3)>>

\* The retrieved rows: up to MaxItems rows over the four lists, in retrieval
\* order, each identified by its place in that order.
Retrieved == UNION {[1..n -> Sections \X RowScores] : n \in 0..MaxItems}

Row(f, i) ==
    IF f[i][2] = 0 THEN [id |-> i]
    ELSE IF f[i][1] = "patterns"
    THEN [id |-> i, avg_similarity |-> MeanScores[f[i][2]]]
    ELSE [id |-> i, score |-> IndexScores[f[i][2]]]

RowsOf(f, section) ==
    LET In(i) == f[i][1] = section
        idx == SelectSeq([i \in DOMAIN f |-> i], In)
    IN  [j \in DOMAIN idx |-> Row(f, idx[j])]

InitFormat ==
    /\ nodes = <<>>
    /\ edges = EmptyBag
    /\ policy_threshold = InitThreshold(None, None)
    /\ last = NoCall
    /\ \E f \in Retrieved :
        prev = Call("retrieve", None,
                    [contrastive |-> [positive |-> RowsOf(f, "positive"),
                                      negative |-> RowsOf(f, "negative")],
                     similar_issues |-> RowsOf(f, "issues"),
                     semantic_patterns |-> RowsOf(f, "patterns")])
    /\ callers = Idle

FormatMemoryContext ==
    /\ last = NoCall
    /\ last' = Call("_format_memory_context", prev.ret,
                    format_memory_context(prev.ret.contrastive,
                                          prev.ret.similar_issues,
                                          prev.ret.semantic_patterns))
    /\ UNCHANGED <<nodes, edges, policy_threshold, prev, callers>>

NextFormat == FormatMemoryContext

SpecFormat == InitFormat /\ [][NextFormat]_vars

Formatted == last.op = "_format_memory_context"

\* The rows of a list that the claim says go into the prompt, by id, in
\* retrieval order.
ClaimedIn(rows, key, floor) ==
    LET Test(x) ==
            /\ key \in DOMAIN x
            /\ IF key = "avg_similarity"
               THEN ~(x[key].num < floor * x[key].den)
               ELSE x[key] >= floor
        kept == SelectSeq(rows, Test)
    IN  [j \in DOMAIN kept |-> kept[j].id]

\* The rows named by the item lines of a section of the context, in order.
ShownIn(context, section) ==
    IF context = NoExperiences THEN <<>>
    ELSE LET Test(l) == l.section = section /\ l.line = "item"
             ls == SelectSeq(context, Test)
         IN  [j \in DOMAIN ls |-> ls[j].of]

\* C22: a positive example is in the context iff its score >= 0.80, a
\* negative example iff its score >= 0.90, a similar issue iff its score >=
\* 0.85, a semantic pattern iff its avg_similarity >= 0.85 (a row without the
\* score is left out); the rows shown keep retrieval order, and the fixed
\* text is returned exactly when no row passes.
C22_AsymmetricFloors ==
    Formatted =>
        LET a == last.arg
            pos == ClaimedIn(a.contrastive.positive, "score", 80)
            neg == ClaimedIn(a.contrastive.negative, "score", 90)
            iss == ClaimedIn(a.similar_issues, "score", 85)
            pat == ClaimedIn(a.semantic_patterns, "avg_similarity", 85)
        IN  /\ ShownIn(last.ret, "positive") = pos
            /\ ShownIn(last.ret, "negative") = neg
            /\ ShownIn(last.ret, "issues") = iss
            /\ ShownIn(last.ret, "patterns") = pat
            /\ (last.ret = NoExperiences) <=>
                   (pos = <<>> /\ neg = <<>> /\ iss = <<>> /\ pat = <<>>)

\* C22 witness: three negative examples were retrieved, the first and third
\* at the floor or above, the second without a score; the context shows the
\* first and the third, in that order.
C22_Witness ==
    /\ Formatted
    /\ Len(last.arg.contrastive.negative) = 3
    /\ "score" \notin DOMAIN last.arg.contrastive.negative[2]
    /\ ShownIn(last.ret, "negative") = <<1, 3>>

----------------------------------------------------------------------------
(* Judging an attempt and storing the judgment: claims C23, C25, C26, C29, *)
(* C30                                                                     *)
(*                                                                         *)
(* A task and an agent output are given by their embeddings.  The parsed   *)
(* answers of the external model (the JudgeResult, the classification of   *)
(* each issue) are inputs.  store_result is a script of GraphManager calls *)
(* with nothing around them: it is modelled call by call, and any call may *)
(* raise.                                                                  *)

MaxPairs == 2

\* uuid4() for the entities of one judgment, in the order the objects are
\* built: values no stored node carries (stored nodes have ids above 100).
PolicyId == 1

AttemptId == 2

IssueId(i) == 1 + 2 * i

FixId(i) == 2 + 2 * i

SemanticId(n, i) == 2 + 2 * n + i

Rel(type, from_id, to_id) == [type |-> type, from_id |-> from_id, to_id |-> to_id]

\* _build_result with every RESOLVES relationship turned around: from the
\* Issue to the Fix.
build_result_resolves_reversed(task, agent_output, data) ==
    LET n == Len(data.issue_fix_pairs)
        policy == Entity("Policy", PolicyId, task, "None")
        attempt == Entity("Attempt", AttemptId, agent_output, data.is_successful)
        issues == [i \in 1..n |->
                     Described(Entity("Issue", IssueId(i),
                                      data.issue_fix_pairs[i].issue, "None"), i)]
        fixes == [i \in 1..n |->
                    Entity("Fix", FixId(i), data.issue_fix_pairs[i].fix, "None")]
    IN  [policy |-> policy,
         attempt |-> attempt,
         issues |-> issues,
         fixes |-> fixes,
         relationships |->
            <<Rel("SATISFIES", attempt.id, policy.id)>> \o
            Concat([i \in 1..n |->
                     <<Rel("CAUSES", attempt.id, issues[i].id),
                       Rel("RESOLVES", issues[i].id, fixes[i].id)>>])]

\* _build_result(task, agent_output, data)
build_result(task, agent_output, data) ==
    LET n == Len(data.issue_fix_pairs)
        policy == Entity("Policy", PolicyId, task, "None")
        attempt == Entity("Attempt", AttemptId, agent_output, data.is_successful)
        issues == [i \in 1..n |->
                     Described(Entity("Issue", IssueId(i),
                                      data.issue_fix_pairs[i].issue, "None"), i)]
        fixes == [i \in 1..n |->
                    Entity("Fix", FixId(i), data.issue_fix_pairs[i].fix, "None")]
    IN  [policy |-> policy,
         attempt |-> attempt,
         issues |-> issues,
         fixes |-> fixes,
         relationships |->
            <<Rel("SATISFIES", attempt.id, policy.id)>> \o
            Concat([i \in 1..n |->
                     <<Rel("CAUSES", attempt.id, issues[i].id),
                       Rel("RESOLVES", fixes[i].id, issues[i].id)>>])]

\* judge(task, agent_output): the prompt, the parsed answer, the result.
judge(task, agent_output, data) == build_result(task, agent_output, data)

\* The memory context judge_with_memory puts into the prompt.
memory_context(ns, es, code_embedding) ==
    format_memory_context(find_contrastive_attempts(ns, code_embedding, 3),
                          find_similar_issues(ns, code_embedding, 5),
                          find_semantic_patterns(ns, es, code_embedding, 3))

\* judge_with_memory(task, agent_output, graph_manager) on the store (ns, es):
\* data is the parsed JudgeResult, decisions[i] and embeddings[i] the parsed
\* classification of the i-th issue and the embedding of a Semantic built
\* for it.
judge_with_memory(ns, es, task, agent_output, data, decisions, embeddings) ==
    LET code_embedding == agent_output
        contrastive == find_contrastive_attempts(ns, code_embedding, 3)
        similar_issues == find_similar_issues(ns, code_embedding, 5)
        semantic_patterns == find_semantic_patterns(ns, es, code_embedding, 3)
        result == build_result(task, agent_output, data)
        n == Len(result.issues)
        classified == [i \in 1..n |->
                         classify_issue(get_all_semantics(ns), decisions[i],
                                        SemanticId(n, i), embeddings[i])]
    IN  [policy |-> result.policy,
         attempt |-> result.attempt,
         issues |-> result.issues,
         fixes |-> result.fixes,
         relationships |-> result.relationships,
         memory_used |-> [positive_examples |-> Len(contrastive.positive),
                          negative_examples |-> Len(contrastive.negative),
                          similar_issues |-> Len(similar_issues),
                          semantic_patterns |-> Len(semantic_patterns)],
         semantics |-> [i \in 1..n |-> classified[i].semantic],
         semantic_relationships |->
            [i \in 1..n |->
                [type |-> "ABSTRACTS_TO", from_id |-> result.issues[i].id,
                 to_id |-> classified[i].semantic.id,
                 is_new |-> classified[i].is_new]]]

\* One GraphManager call of store_result.
Step(op, arg) == [op |-> op, arg |-> arg]

LinkOp(type) ==
    CASE type = "SATISFIES" -> "link_attempt_satisfies_policy"
      [] type = "CAUSES" -> "link_attempt_causes_issue"
      [] type = "RESOLVES" -> "link_fix_resolves_issue"
      [] type = "ABSTRACTS_TO" -> "link_issue_abstracts_to_semantic"

\* store_result(gm, result), as the list of the calls it makes, in order.
\* The variant of test_pipeline stops after the relationships; the variant of
\* test_edge_cases and test_memory_evolution also stores the semantics that
\* came back as new and the semantic relationships.
StoreCalls(result, variant) ==
    LET semantics == Get(result, "semantics", <<>>)
        semantic_rels == Get(result, "semantic_relationships", <<>>)
        IsNew(i) == i <= Len(semantic_rels) /\ Get(semantic_rels[i], "is_new", TRUE)
        new == SelectSeq([i \in DOMAIN semantics |-> i], IsNew)
    IN  <<Step("get_or_create_policy", result.policy),
          Step("create_attempt", result.attempt)>> \o
        [i \in DOMAIN result.issues |-> Step("create_issue", result.issues[i])] \o
        [i \in DOMAIN result.fixes |-> Step("create_fix", result.fixes[i])] \o
        (IF variant = "semantics"
         THEN [j \in DOMAIN new |-> Step("get_or_create_semantic", semantics[new[j]])]
         ELSE <<>>) \o
        [i \in DOMAIN result.relationships |->
            Step(LinkOp(result.relationships[i].type), result.relationships[i])] \o
        (IF variant = "semantics"
         THEN [i \in DOMAIN semantic_rels |->
                 Step(LinkOp(semantic_rels[i].type), semantic_rels[i])]
         ELSE <<>>)

\* SatisfiesTarget with the relationship's own to_id: the id of the candidate
\* Policy of the judgment.
SatisfiesTargetCandidate(rel, policy_id) == rel.to_id

\* gm.link_attempt_satisfies_policy(rel['from_id'], policy_id): the target is
\* the id that get_or_create_policy returned.
SatisfiesTarget(rel, policy_id) == policy_id

\* The arguments a call of store_result is given: the entity, or the ids of
\* the relationship with policy_id as the target of SATISFIES.
StepArgs(step, policy_id) ==
    IF step.op \in {"get_or_create_policy", "get_or_create_semantic",
                    "create_attempt", "create_issue", "create_fix"}
    THEN step.arg
    ELSE Rel(step.arg.type, step.arg.from_id,
             IF step.arg.type = "SATISFIES"
             THEN SatisfiesTarget(step.arg, policy_id)
             ELSE step.arg.to_id)

\* The store after one call of store_result, the arguments the call was
\* given, what it returned, and the policy_id the script holds afterwards.
Stepped(ns, es, inst_threshold, policy_id, step) ==
    IF step.op = "get_or_create_policy"
    THEN LET r == get_or_create_policy(ns, inst_threshold, step.arg, None)
         IN  [nodes |-> r.nodes, edges |-> es, arg |-> step.arg, ret |-> r.ret,
              policy_id |-> r.ret.id]
    ELSE IF step.op = "get_or_create_semantic"
    THEN LET r == get_or_create_semantic(ns, step.arg, DEFAULT_SEMANTIC_THRESHOLD)
         IN  [nodes |-> r.nodes, edges |-> es, arg |-> step.arg, ret |-> r.ret,
              policy_id |-> policy_id]
    ELSE IF step.op \in {"create_attempt", "create_issue", "create_fix"}
    THEN [nodes |-> CreateNode(ns, step.arg), edges |-> es, arg |-> step.arg,
          ret |-> step.arg.id, policy_id |-> policy_id]
    ELSE LET args == StepArgs(step, policy_id)
         IN  [nodes |-> ns,
              edges |-> Linked(ns, es, args.type, args.from_id, args.to_id),
              arg |-> args,
              ret |-> LinkOutcome(ns, args.type, args.from_id, args.to_id),
              policy_id |-> policy_id]

\* The store a judgment is made on: empty, or what an earlier judgment left
\* (a Policy, a failed Attempt, its Issue and Fix, the Semantic "A" the Issue
\* abstracts to), or a Policy and a Semantic alone.
EarlierNodes ==
    <<Entity("Policy", 101, 0, "None"),
      Semantic(102, "A", 0),
      Entity("Attempt", 103, 0, "False"),
      Described(Entity("Issue", 104, 0, "None"), 0),
      Entity("Fix", 105, 0, "None")>>

EarlierEdges ==
    SetToBag({[type |-> "SATISFIES", src |-> 3, dst |-> 1],
              [type |-> "CAUSES", src |-> 3, dst |-> 4],
              [type |-> "RESOLVES", src |-> 5, dst |-> 4],
              [type |-> "ABSTRACTS_TO", src |-> 4, dst |-> 2]})

EarlierStores ==
    {[nodes |-> <<>>, edges |-> EmptyBag],
     [nodes |-> SubSeq(EarlierNodes, 1, 2), edges |-> EmptyBag],
     [nodes |-> EarlierNodes, edges |-> EarlierEdges]}

InitJudge ==
    /\ \E s \in EarlierStores : nodes = s.nodes /\ edges = s.edges
    /\ policy_threshold = InitThreshold(None, None)
    /\ last = NoCall
    /\ prev = NoCall
    /\ callers = Idle

\* The parsed JudgeResult: the verdict and up to MaxPairs (issue, fix) pairs.
JudgeResults ==
    {[is_successful |-> s, issue_fix_pairs |-> [i \in 1..n |-> [issue |-> 0, fix |-> 0]]] :
        s \in {"True", "False"}, n \in 0..MaxPairs}

\* Judged with the Attempt of the judgment written to the store by the
\* judge itself.
JudgedAndStored(call, result) ==
    /\ callers[1].pc = "idle"
    /\ prev = NoCall
    /\ prev' = Call(call.op, call.arg, result)
    /\ callers' = [callers EXCEPT ![1] = [pc |-> "judged"]]
    /\ nodes' = CreateNode(nodes, result.attempt)
    /\ UNCHANGED <<edges, policy_threshold, last>>

\* A judgment returns: the call and its result are on record, the store is
\* as it was (the judge functions call find_contrastive_attempts,
\* find_similar_issues, find_semantic_patterns and get_all_semantics only).
Judged(call, result) ==
    /\ callers[1].pc = "idle"
    /\ prev = NoCall
    /\ prev' = Call(call.op, call.arg, result)
    /\ callers' = [callers EXCEPT ![1] = [pc |-> "judged"]]
    /\ UNCHANGED <<nodes, edges, policy_threshold, last>>

Judge ==
    \E task \in EmbMain, data \in JudgeResults :
        Judged(Step("judge", [task |-> task, agent_output |-> 0, data |-> data]),
               judge(task, 0, data))

JudgeWithMemory ==
    \E task \in EmbMain, data \in JudgeResults :
        \E decisions \in [1..Len(data.issue_fix_pairs) -> Decisions],
           embeddings \in [1..Len(data.issue_fix_pairs) -> EmbMain] :
            Judged(Step("judge_with_memory",
                        [task |-> task, agent_output |-> 0, data |-> data,
                         contrastive |-> find_contrastive_attempts(nodes, 0, 3),
                         similar_issues |-> find_similar_issues(nodes, 0, 5),
                         memory_context |-> memory_context(nodes, edges, 0)]),
                   judge_with_memory(nodes, edges, task, 0, data,
                                     decisions, embeddings))

\* store_result is entered with the result of the judgment.
StoreResultBegin ==
    /\ callers[1].pc = "judged"
    /\ \E variant \in {"pipeline", "semantics"} :
        callers' = [callers EXCEPT ![1] =
            [pc |-> "store", variant |-> variant, step |-> 1, policy_id |-> None]]
    /\ UNCHANGED <<nodes, edges, policy_threshold, last, prev>>

\* The next call of store_result returns.
StoreResultStep ==
    /\ callers[1].pc = "store"
    /\ \E calls \in {StoreCalls(prev.ret, callers[1].variant)} :
       \E k \in {callers[1].step} :
       \E r \in {Stepped(nodes, edges, policy_threshold, callers[1].policy_id,
                          calls[k])} :
           /\ nodes' = r.nodes
           /\ edges' = r.edges
           /\ last' = Call(calls[k].op, r.arg, r.ret)
           /\ callers' = [callers EXCEPT ![1] =
                [pc |-> IF k = Len(calls) THEN "done" ELSE "store",
                 variant |-> callers[1].variant,
                 step |-> k + 1,
                 policy_id |-> r.policy_id]]
    /\ UNCHANGED <<policy_threshold, prev>>

\* StoreResultFail inside a transaction around store_result: the failure
\* rolls the store back to what it held when store_result was entered.
StoreResultFailRolledBack ==
    /\ callers[1].pc = "store"
    /\ LET calls == StoreCalls(prev.ret, callers[1].variant)
           k == callers[1].step
           kept == {p \in DOMAIN nodes : nodes[p].id > 100}
       IN  /\ last' = Call(calls[k].op,
                           StepArgs(calls[k], callers[1].policy_id), Raised)
           /\ nodes' = SubSeq(nodes, 1, Cardinality(kept))
           /\ edges' = [e \in {x \in BagToSet(edges) : x.src \in kept /\ x.dst \in kept}
                            |-> edges[e]]
           /\ callers' = [callers EXCEPT ![1] =
                [pc |-> "failed", variant |-> callers[1].variant,
                 step |-> k, policy_id |-> callers[1].policy_id]]
    /\ UNCHANGED <<policy_threshold, prev>>

\* The next call of store_result raises (the store is unreachable, the
\* session is lost): the exception leaves store_result, nothing is undone.
StoreResultFail ==
    /\ callers[1].pc = "store"
    /\ LET calls == StoreCalls(prev.ret, callers[1].variant)
           k == callers[1].step
       IN  /\ last' = Call(calls[k].op,
                           StepArgs(calls[k], callers[1].policy_id), Raised)
           /\ callers' = [callers EXCEPT ![1] =
                [pc |-> "failed", variant |-> callers[1].variant,
                 step |-> k, policy_id |-> callers[1].policy_id]]
    /\ UNCHANGED <<nodes, edges, policy_threshold, prev>>

NextJudge ==
    \/ Judge
    \/ JudgeWithMemory
    \/ StoreResultBegin
    \/ StoreResultStep
    \/ StoreResultFail

SpecJudge == InitJudge /\ [][NextJudge]_vars

\* store_result has returned, in the variant that stores semantics, for a
\* judgment of judge_with_memory.
StoredWithSemantics ==
    /\ callers[1].pc = "done"
    /\ callers[1].variant = "semantics"
    /\ prev.op = "judge_with_memory"

\* The Semantic nodes that Issue id has an ABSTRACTS_TO edge to.
AbstractionsOf(id) ==
    {s \in StoredSemantics :
        \E i \in Match(nodes, "Issue", id) :
            BagIn([type |-> "ABSTRACTS_TO", src |-> i, dst |-> s], edges)}

\* C23 (as claimed): after a judgment of judge_with_memory is stored with
\* store_result and no step failed, every Issue of the judgment has an
\* ABSTRACTS_TO edge to a stored Semantic, also when get_or_create_semantic
\* merged a 'new' Semantic into an existing node.
C23_EveryIssueAbstracted ==
    StoredWithSemantics =>
        \A i \in DOMAIN prev.ret.issues : AbstractionsOf(prev.ret.issues[i].id) # {}

\* The semantics of the stored judgment that get_or_create_semantic merged
\* into a stored node: they came back as new and no node carries their id.
MergedSemantics ==
    {i \in DOMAIN prev.ret.semantics :
        /\ prev.ret.semantic_relationships[i].is_new
        /\ Match(nodes, "Semantic", prev.ret.semantics[i].id) = {}}

\* C23, where it does hold: an Issue whose Semantic was found by name, or was
\* created as a node of its own, has its edge.
C23_OnUnmerged ==
    StoredWithSemantics =>
        \A i \in DOMAIN prev.ret.issues :
            i \notin MergedSemantics => AbstractionsOf(prev.ret.issues[i].id) # {}

\* An Issue whose 'new' Semantic was merged is left without any edge.
C23_MergedLeftOut ==
    StoredWithSemantics =>
        \A i \in MergedSemantics : AbstractionsOf(prev.ret.issues[i].id) = {}

----------------------------------------------------------------------------
(* What the operations leave alone: claim C24 *)

\* get_or_create_policy or get_or_create_semantic with an entity object of
\* its own that carries an embedding, at the default thresholds.
FrameUpsert ==
    /\ \E op \in GetOrCreateOps, e \in {0, 1} :
        LET entity == Entity(LabelOf(op), Len(nodes) + 1, e, "None")
            r == Stored(nodes, policy_threshold, op, entity)
        IN  /\ Len(r.nodes) <= MaxNodes
            /\ nodes' = r.nodes
            /\ last' = Call(op, entity, r.ret)
    /\ prev' = NoCall
    /\ UNCHANGED <<edges, policy_threshold, callers>>

NextFrame ==
    \/ QueryCreate
    \/ QueryLink
    \/ ClearAllCall
    \/ FindQuery
    \/ GetQuery
    \/ FrameUpsert

SpecFrame == Init /\ [][NextFrame]_vars

\* Every node stored before the step is stored after it, at its place and
\* with the same properties (its embedding among them), and every edge
\* stored before the step is stored after it.
StoreKept ==
    /\ Len(nodes') >= Len(nodes)
    /\ SubSeq(nodes', 1, Len(nodes)) = nodes
    /\ edges \sqsubseteq edges'

StoreSame == nodes' = nodes /\ edges' = edges

\* C24: no GraphManager operation other than clear_all removes or changes a
\* stored node, a stored embedding or a stored edge: create_* and link_* only
\* add, every find_* / get_* query leaves the store unchanged, and a
\* get_or_create_* call that returns created=false leaves the store exactly
\* as it was.
C24_OnlyClearAllRemoves ==
    [][last'.op # "clear_all" =>
        /\ StoreKept
        /\ last'.op \in QueryOps => StoreSame
        /\ (last'.op \in GetOrCreateOps /\ ~last'.ret.created) => StoreSame]_vars

\* C24 witness: on a store with a node and an edge, get_or_create_policy
\* returned created=false for a candidate whose embedding differs from the
\* stored Policy's.
C24_Witness ==
    /\ last.op = "get_or_create_policy"
    /\ last.ret.created = FALSE
    /\ edges # EmptyBag
    /\ \E p \in DOMAIN nodes :
        /\ nodes[p].kind = "Policy"
        /\ nodes[p].id = last.ret.id
        /\ nodes[p].emb # last.arg.emb

\* The creating calls of store_result.
StoringOps == {"get_or_create_policy", "create_attempt", "create_issue",
               "create_fix", "get_or_create_semantic"}

\* The ids of the nodes the store held when the judgment was made.
EarlierIds == {EarlierNodes[p].id : p \in DOMAIN EarlierNodes}

\* Before the k-th call of the script, the node of label kind that a link
\* names by id has had its create or get_or_create call return: in this run
\* of store_result (the call was given the entity of that id, or returned
\* the id), or before it, the node being one the store held already.
EndpointCallReturned(calls, k, kind, id) ==
    \/ \E j \in 1..(k - 1) :
        /\ calls[j].op \in StoringOps
        /\ calls[j].arg.kind = kind
        /\ \/ calls[j].arg.id = id
           \/ calls[j].op = "get_or_create_policy" /\ callers[1].policy_id = id
    \/ id \in EarlierIds /\ Match(nodes, kind, id) # {}

\* The link call that store_result is about to issue comes after the calls
\* for both of its endpoints.
LinkAfterEndpoints ==
    callers[1].pc = "store" =>
        LET calls == StoreCalls(prev.ret, callers[1].variant)
            k == callers[1].step
        IN  calls[k].op \in LinkOps =>
                LET to_id == IF calls[k].arg.type = "SATISFIES"
                             THEN callers[1].policy_id ELSE calls[k].arg.to_id
                IN  /\ EndpointCallReturned(calls, k, SrcKind(calls[k].arg.type),
                                            calls[k].arg.from_id)
                    /\ EndpointCallReturned(calls, k, DstKind(calls[k].arg.type),
                                            to_id)

\* The SATISFIES link was called with the id get_or_create_policy returned.
SatisfiesNamesReturnedId ==
    (callers[1].pc \in {"store", "done"} /\ last.op = "link_attempt_satisfies_policy")
    => /\ last.arg.to_id = callers[1].policy_id
       /\ Match(nodes, "Policy", last.arg.to_id) # {}

\* The SATISFIES edges that leave the Attempt of the judgment, as a bag.
SatisfiesEdgesOfAttempt ==
    {e \in BagToSet(edges) :
        /\ e.type = "SATISFIES"
        /\ e.src \in Match(nodes, "Attempt", prev.ret.attempt.id)}

StoreResultDone == callers[1].pc = "done"

\* C25: in store_result every link_* call is issued only after the create or
\* get_or_create calls for both of its endpoints have returned, the SATISFIES
\* link targets the id returned by get_or_create_policy, and after a
\* failure-free store_result the Attempt has exactly one SATISFIES edge, to
\* a stored Policy, also when the Policy was deduplicated.
C25_LinksAfterEndpoints ==
    /\ LinkAfterEndpoints
    /\ SatisfiesNamesReturnedId
    /\ StoreResultDone =>
        /\ Cardinality(SatisfiesEdgesOfAttempt) = 1
        /\ \A e \in SatisfiesEdgesOfAttempt :
            /\ CopiesIn(e, edges) = 1
            /\ e.dst \in DOMAIN nodes
            /\ nodes[e.dst].kind = "Policy"

\* C25 witness: store_result returned for a judgment with two issues whose
\* Policy was deduplicated: no node carries the candidate Policy's id.
C25_Witness ==
    /\ StoreResultDone
    /\ Len(prev.ret.issues) = 2
    /\ Match(nodes, "Policy", prev.ret.policy.id) = {}
    /\ SatisfiesEdgesOfAttempt # {}

\* A judgment has been made; JudgedResult is the dict it returned, JudgedPairs
\* the number of (issue, fix) pairs of the parsed answer.
JudgmentMade == prev.op \in {"judge", "judge_with_memory"}

JudgedResult == prev.ret

JudgedPairs == Len(prev.arg.data.issue_fix_pairs)

\* The relationships of a type, in the order of the list.
OfType(relationships, type) ==
    SelectSeq(relationships, LAMBDA rel : rel.type = type)

\* The ids of the entities of the result.
ResultIds ==
    {JudgedResult.policy.id, JudgedResult.attempt.id}
        \cup {JudgedResult.issues[i].id : i \in DOMAIN JudgedResult.issues}
        \cup {JudgedResult.fixes[i].id : i \in DOMAIN JudgedResult.fixes}

\* C26: for a judgment with n (issue, fix) pairs, _build_result yields exactly
\* n Issues, n Fixes, one SATISFIES relationship (attempt to policy), n CAUSES
\* and n RESOLVES relationships, the i-th CAUSES from the attempt to the i-th
\* Issue and the i-th RESOLVES from the i-th Fix to the i-th Issue; every
\* relationship endpoint is the id of an entity of the same result; and
\* judge_with_memory adds exactly one ABSTRACTS_TO relationship per Issue, in
\* Issue order, whose from_id is that Issue's id.
C26_ResultShape ==
    JudgmentMade =>
        LET r == JudgedResult
            n == JudgedPairs
        IN  /\ Len(r.issues) = n
            /\ Len(r.fixes) = n
            /\ Cardinality(ResultIds) = 2 + 2 * n
            /\ Len(r.relationships) = 1 + 2 * n
            /\ OfType(r.relationships, "SATISFIES") =
                    <<[type |-> "SATISFIES", from_id |-> r.attempt.id,
                       to_id |-> r.policy.id]>>
            /\ OfType(r.relationships, "CAUSES") =
                    [i \in 1..n |-> [type |-> "CAUSES", from_id |-> r.attempt.id,
                                     to_id |-> r.issues[i].id]]
            /\ OfType(r.relationships, "RESOLVES") =
                    [i \in 1..n |-> [type |-> "RESOLVES", from_id |-> r.fixes[i].id,
                                     to_id |-> r.issues[i].id]]
            /\ \A i \in DOMAIN r.relationships :
                    /\ r.relationships[i].from_id \in ResultIds
                    /\ r.relationships[i].to_id \in ResultIds
            /\ IF prev.op = "judge_with_memory"
               THEN /\ Len(r.semantic_relationships) = n
                    /\ \A i \in 1..n :
                        /\ r.semantic_relationships[i].type = "ABSTRACTS_TO"
                        /\ r.semantic_relationships[i].from_id = r.issues[i].id
               ELSE "semantic_relationships" \notin DOMAIN r

\* C26 witness: judge_with_memory returned a judgment with two (issue, fix)
\* pairs, the second issue classified into a stored category.
C26_Witness ==
    /\ prev.op = "judge_with_memory"
    /\ JudgedPairs = 2
    /\ ~JudgedResult.semantic_relationships[2].is_new
    /\ Len(JudgedResult.relationships) = 5

----------------------------------------------------------------------------
(* The kinds an edge connects: claim C27 *)

\* Every stored edge runs from a node of its type's source label to a node
\* of its type's target label.
EdgesWellKinded ==
    \A e \in BagToSet(edges) :
        /\ e.src \in DOMAIN nodes
        /\ e.dst \in DOMAIN nodes
        /\ nodes[e.src].kind = SrcKind(e.type)
        /\ nodes[e.dst].kind = DstKind(e.type)

\* Some stored node carries the id, and none of them has the label.
OnlyOtherKinds(kind, id) ==
    /\ \E p \in DOMAIN nodes : nodes[p].id = id
    /\ Match(nodes, kind, id) = {}

\* The last call was a link_* call that named, for one of its endpoints, the
\* id of a stored node of another kind.
LinkNamedWrongKind ==
    /\ last.op \in LinkOps
    /\ \/ OnlyOtherKinds(SrcKind(last.arg.type), last.arg.from_id)
       \/ OnlyOtherKinds(DstKind(last.arg.type), last.arg.to_id)

\* C27: in every reachable store state each edge type connects only its
\* declared node kinds (SATISFIES: Attempt to Policy; CAUSES: Attempt to
\* Issue; RESOLVES: Fix to Issue; ABSTRACTS_TO: Issue to Semantic), and a
\* link_* call given the id of an existing node of the wrong kind for either
\* endpoint adds no edge.
C27_EdgesConnectDeclaredKinds ==
    /\ []EdgesWellKinded
    /\ [][LinkNamedWrongKind' => edges' = edges]_vars

\* C27 witness: an edge is stored, and the last call was a link that named a
\* stored node of the wrong kind.
C27_Witness == LinkNamedWrongKind /\ edges # EmptyBag

----------------------------------------------------------------------------
(* Repeated link calls: claim C28 *)

\* C28 (as claimed): each link_* operation is idempotent on the graph, so
\* there is never more than one edge of a given type between a given ordered
\* pair of nodes.
C28_AtMostOneEdgePerPair ==
    \A e \in BagToSet(edges) : CopiesIn(e, edges) <= 1

\* What the code does instead: every link_* call adds one edge for each pair
\* of nodes its two MATCH clauses bind, whatever edges are stored.
C28_EveryCallAddsEdges ==
    [][last'.op \in LinkOps =>
        BagCardinality(edges') = BagCardinality(edges) +
            Cardinality(Match(nodes, SrcKind(last'.arg.type), last'.arg.from_id)) *
            Cardinality(Match(nodes, DstKind(last'.arg.type), last'.arg.to_id))]_vars

\* The step is a judgment: judge or judge_with_memory returns.
JudgmentStep == prev.op = "init" /\ prev'.op \in {"judge", "judge_with_memory"}

\* The ids of the Attempts that find_contrastive_attempts handed to the
\* judgment as precedents.
PrecedentIds ==
    {prev.arg.contrastive.positive[i].id : i \in DOMAIN prev.arg.contrastive.positive}
        \cup
    {prev.arg.contrastive.negative[i].id : i \in DOMAIN prev.arg.contrastive.negative}

\* C29: judge, judge_with_memory and classify_issue never write to the graph:
\* the store is identical before and after any judgment, and the attempt
\* being judged is never among its own retrieved precedents.
C29_JudgingOnlyReads ==
    /\ [][JudgmentStep => StoreSame]_vars
    /\ [](prev.op = "judge_with_memory" =>
            /\ prev.ret.attempt.id \notin PrecedentIds
            /\ \A i \in DOMAIN prev.ret.issues :
                \A j \in DOMAIN prev.arg.similar_issues :
                    prev.ret.issues[i].id # prev.arg.similar_issues[j].id)

\* C29 witness: judge_with_memory has just returned a judgment with an issue,
\* made on a store that holds an Attempt with the very embedding of the
\* output being judged, which was retrieved as a precedent.
C29_Witness ==
    /\ prev.op = "judge_with_memory"
    /\ callers[1].pc = "judged"
    /\ Len(prev.ret.issues) > 0
    /\ \E i \in DOMAIN prev.arg.contrastive.negative :
        prev.arg.contrastive.negative[i].score = 100

\* store_result was left by an exception; StoreStepsDone calls had returned.
StoreResultFailed == callers[1].pc = "failed"

StoreStepsDone == callers[1].step - 1

\* What the j-th call of store_result wrote is in the store: the node of a
\* create call, the node a get_or_create call returned the id of, the edge
\* of a link call between each pair of nodes its ids name.
WriteInStore(calls, j) ==
    IF calls[j].op \in {"create_attempt", "create_issue", "create_fix"}
    THEN Match(nodes, calls[j].arg.kind, calls[j].arg.id) # {}
    ELSE IF calls[j].op = "get_or_create_policy"
    THEN Match(nodes, "Policy", callers[1].policy_id) # {}
    ELSE IF calls[j].op = "get_or_create_semantic"
    THEN \E p \in StoredSemantics :
            Score(nodes[p].emb, calls[j].arg.emb) >= DEFAULT_SEMANTIC_THRESHOLD
    ELSE LET to_id == IF calls[j].arg.type = "SATISFIES"
                      THEN callers[1].policy_id ELSE calls[j].arg.to_id
         IN  \A e \in LinkRows(nodes, calls[j].arg.type, calls[j].arg.from_id, to_id) :
                BagIn(e, edges)

\* Nothing of the j-th call of store_result is in the store: no node carries
\* the id of its entity, no edge runs between the nodes its ids name.
WriteNotInStore(calls, j) ==
    IF calls[j].op \in StoringOps
    THEN Match(nodes, calls[j].arg.kind, calls[j].arg.id) = {}
    ELSE LET to_id == IF calls[j].arg.type = "SATISFIES"
                      THEN callers[1].policy_id ELSE calls[j].arg.to_id
         IN  \A e \in LinkRows(nodes, calls[j].arg.type, calls[j].arg.from_id, to_id) :
                ~BagIn(e, edges)

\* C30: storing a judgment is a sequence of independent single-step writes
\* with no enclosing transaction: if a step fails after k steps completed,
\* the first k writes stay in the store and the later ones are missing, and
\* every such partial state still contains no edge with a missing endpoint.
C30_PartialStoreStays ==
    StoreResultFailed =>
        LET calls == StoreCalls(prev.ret, callers[1].variant)
        IN  /\ \A j \in 1..StoreStepsDone : WriteInStore(calls, j)
            /\ \A j \in (StoreStepsDone + 1)..Len(calls) : WriteNotInStore(calls, j)
            /\ NoDanglingEdge

\* C30 witness: store_result failed with the Attempt stored, the CAUSES edge
\* to the first of its two Issues stored and the CAUSES edge to the second
\* missing.
C30_Witness ==
    /\ StoreResultFailed
    /\ Len(prev.ret.issues) = 2
    /\ last.op = "link_attempt_causes_issue"
    /\ last.ret = Raised
    /\ \E a \in Match(nodes, "Attempt", prev.ret.attempt.id) :
        /\ \E i \in Match(nodes, "Issue", prev.ret.issues[1].id) :
            BagIn([type |-> "CAUSES", src |-> a, dst |-> i], edges)
        /\ \E i \in Match(nodes, "Issue", prev.ret.issues[2].id) :
            ~BagIn([type |-> "CAUSES", src |-> a, dst |-> i], edges)

====
